---- MODULE Spec2Model ----
(***************************************************************************)
(* A model of ExcelHelper (src/excel_helper/excel_helper.py): the active   *)
(* sheet as a map from cell coordinates to values, the cell read/write     *)
(* helpers, the formula helpers, and the formula translation that          *)
(* copy_formula performs through the spreadsheet engine's Translator.      *)
(*                                                                         *)
(* Text is modelled as a sequence of one-character strings, so that        *)
(* tokenizing, shifting and re-encoding a formula are computed character   *)
(* by character rather than assumed.                                       *)
(***************************************************************************)
EXTENDS Integers, Sequences, FiniteSets, TLC

VARIABLES
    cells,   \* the active sheet: (row, col) -> the cell there, created cells only
    hist,    \* the calls made so far: name, arguments, sheet before, return, exception
    pc,      \* the caller's position
    n,       \* the column index the column scenario encodes
    letters, \* get_column_letter(n)
    decoded, \* column_index_from_string(letters)
    widths,  \* the active sheet's column_dimensions: column letters -> width set
    active,  \* the title of the active sheet, "" for a helper without workbook
    others,  \* the workbook's other sheets: title -> [cells, widths]
    tables,  \* the workbook's tables: the sheet, the ref, whether the columns are named
    files,   \* the workbook files on disk: path -> the workbook saved there
    workbook_active  \* Workbook.active of the helper's workbook, by title

vars == <<cells, hist, pc, n, letters, decoded, widths, active, others, tables, files,
          workbook_active>>

----------------------------------------------------------------------------
(* Characters *)

Upper == <<"A","B","C","D","E","F","G","H","I","J","K","L","M",
           "N","O","P","Q","R","S","T","U","V","W","X","Y","Z">>
Lower == <<"a","b","c","d","e","f","g","h","i","j","k","l","m",
           "n","o","p","q","r","s","t","u","v","w","x","y","z">>
Digits == <<"0","1","2","3","4","5","6","7","8","9">>

UpperSet == {Upper[i] : i \in 1..26}
LowerSet == {Lower[i] : i \in 1..26}
LetterSet == UpperSet \cup LowerSet
DigitSet == {Digits[i] : i \in 1..10}

\* str.upper() on one character
ToUpper(ch) == IF ch \in LowerSet THEN Upper[CHOOSE i \in 1..26 : Lower[i] = ch] ELSE ch
\* ord(ch) - 64 for an upper-case letter
LetterIdx(ch) == CHOOSE i \in 1..26 : Upper[i] = ch
DigitVal(ch) == (CHOOSE i \in 1..10 : Digits[i] = ch) - 1

\* Results of library calls that may raise: ok with a text, or the exception's name.
Ok(s) == [ok |-> TRUE, v |-> s]
Raise(name) == [ok |-> FALSE, v |-> <<name>>]

RECURSIVE IntToStr(_)
\* str(k)
IntToStr(k) == IF k < 0 THEN <<"-">> \o IntToStr(0 - k)
               ELSE IF k < 10 THEN <<Digits[k + 1]>>
               ELSE Append(IntToStr(k \div 10), Digits[(k % 10) + 1])

RECURSIVE StrToInt(_)
\* int(s) for a non-empty digit string
StrToInt(s) == IF Len(s) = 0 THEN 0
               ELSE 10 * StrToInt(SubSeq(s, 1, Len(s) - 1)) + DigitVal(s[Len(s)])

RECURSIVE Concat(_)
\* "".join(parts)
Concat(parts) == IF Len(parts) = 0 THEN <<>> ELSE Head(parts) \o Concat(Tail(parts))

AllIn(s, S) == \A i \in 1..Len(s) : s[i] \in S
HasChar(s, ch) == \E i \in 1..Len(s) : s[i] = ch
FirstPos(s, ch) == CHOOSE i \in 1..Len(s) : s[i] = ch /\ \A j \in 1..(i - 1) : s[j] # ch

RECURSIVE Split(_, _)
\* s.split(ch)
Split(s, ch) == IF ~HasChar(s, ch) THEN <<s>>
                ELSE LET i == FirstPos(s, ch)
                     IN <<SubSeq(s, 1, i - 1)>> \o Split(SubSeq(s, i + 1, Len(s)), ch)

----------------------------------------------------------------------------
(* Column letters: openpyxl.utils.get_column_letter / column_index_from_string *)

RECURSIVE ColumnLetters(_)
\* the divmod loop with borrow on exact division, for idx >= 1
ColumnLetters(idx) ==
    IF idx <= 0 THEN <<>>
    ELSE LET rem == idx % 26
             r == IF rem = 0 THEN 26 ELSE rem
             q == IF rem = 0 THEN (idx \div 26) - 1 ELSE idx \div 26
         IN Append(ColumnLetters(q), Upper[r])

RECURSIVE PlainBase26(_)
\* base 26 with the digits A..Z and no borrow: Z is followed by BA
PlainBase26(idx) ==
    IF idx = 0 THEN <<>> ELSE Append(PlainBase26(idx \div 26), Upper[(idx % 26) + 1])
\* get_column_letter numbering the letters from zero
get_column_letter_plain(idx) ==
    IF idx < 1 \/ idx > 18278 THEN Raise("ValueError") ELSE Ok(PlainBase26(idx))

\* get_column_letter(idx): letters A..ZZZ, ValueError outside 1..18278
get_column_letter(idx) ==
    IF idx < 1 \/ idx > 18278 THEN Raise("ValueError") ELSE Ok(ColumnLetters(idx))

RECURSIVE ColumnIndex(_)
ColumnIndex(s) == IF Len(s) = 0 THEN 0
                  ELSE 26 * ColumnIndex(SubSeq(s, 1, Len(s) - 1)) + LetterIdx(ToUpper(s[Len(s)]))

\* column_index_from_string(s): case-insensitive, ValueError unless 1..3 letters
column_index_from_string(s) ==
    IF Len(s) \in 1..3 /\ AllIn(s, LetterSet) THEN Ok(ColumnIndex(s)) ELSE Raise("ValueError")

----------------------------------------------------------------------------
(* Formula tokens: openpyxl.formula.tokenizer, as Translator uses it.      *)
(* Characters modelled: letters, digits, $ : . ( ) { } , ; space " and the *)
(* operators + - * / ^ & = > < %.  Sheet-qualified references (!), quoted  *)
(* sheet links ('), structured references ([) and error literals (#) are   *)
(* outside the model; no formula of the model contains them.               *)

TOKEN_ENDERS == {",", ";", "}", ")", " ", "+", "-", "*", "/", "^", "&", "=", ">", "<", "%"}
OperatorChars == {"+", "-", "*", "/", "^", "&", "=", ">", "<", "%"}

Token(value, type, subtype) == [value |-> value, type |-> type, subtype |-> subtype]

\* float(value) succeeds: blanks around, a sign, then digits with an optional
\* fraction and exponent (single underscores allowed between digits), or
\* inf / infinity / nan in any case
IsDigits(s) ==
    /\ Len(s) >= 1 /\ AllIn(s, DigitSet \cup {"_"})
    /\ s[1] # "_" /\ s[Len(s)] # "_"
    /\ \A i \in 1..(Len(s) - 1) : ~(s[i] = "_" /\ s[i + 1] = "_")
IsMantissa(s) ==
    \/ IsDigits(s)
    \/ /\ HasChar(s, ".")
       /\ LET i == FirstPos(s, ".")
              a == SubSeq(s, 1, i - 1)
              b == SubSeq(s, i + 1, Len(s))
          IN /\ a = <<>> \/ IsDigits(a)
             /\ b = <<>> \/ IsDigits(b)
             /\ Len(a) + Len(b) >= 1
IsExponent(s) ==
    \/ IsDigits(s)
    \/ Len(s) >= 2 /\ s[1] \in {"+", "-"} /\ IsDigits(Tail(s))
UpperOf(s) == [i \in 1..Len(s) |-> ToUpper(s[i])]
\* str.strip() of blanks
Strip(s) ==
    LET keep == {i \in 1..Len(s) : s[i] # " "}
    IN IF keep = {} THEN <<>>
       ELSE SubSeq(s, CHOOSE i \in keep : \A j \in keep : i <= j,
                      CHOOSE i \in keep : \A j \in keep : j <= i)
IsUnsignedFloat(s) ==
    \/ IsMantissa(s)
    \/ \E i \in 2..(Len(s) - 1) :
          /\ s[i] \in {"e", "E"}
          /\ IsMantissa(SubSeq(s, 1, i - 1))
          /\ IsExponent(SubSeq(s, i + 1, Len(s)))
    \/ UpperOf(s) \in {<<"I","N","F">>, <<"N","A","N">>, <<"I","N","F","I","N","I","T","Y">>}
IsFloat(s) ==
    LET t == Strip(s)
    IN IsUnsignedFloat(IF Len(t) >= 1 /\ t[1] \in {"+", "-"} THEN Tail(t) ELSE t)

\* Token.make_operand(value)
make_operand(value) ==
    Token(value, "OPERAND",
          IF Len(value) >= 1 /\ value[1] = "\"" THEN "TEXT"
          ELSE IF Len(value) >= 1 /\ value[1] = "#" THEN "ERROR"
          ELSE IF value \in {<<"T","R","U","E">>, <<"F","A","L","S","E">>} THEN "LOGICAL"
          ELSE IF IsFloat(value) THEN "NUMBER"
          ELSE "RANGE")

\* Token.make_subexp(value, func)
make_subexp(value, func) ==
    Token(value,
          IF func THEN "FUNC"
          ELSE IF value \in {<<"{">>, <<"}">>} THEN "ARRAY"
          ELSE IF value \in {<<"(">>, <<")">>} THEN "PAREN"
          ELSE "FUNC",
          IF value[Len(value)] \in {")", "}"} THEN "CLOSE" ELSE "OPEN")

\* Token.get_closer()
get_closer(tok) ==
    make_subexp(IF tok.type = "ARRAY" THEN <<"}">> ELSE <<")">>, tok.type = "FUNC")

\* Token.make_separator(value)
make_separator(value) == Token(value, "SEP", IF value = <<",">> THEN "ARG" ELSE "ROW")

\* Tokenizer.__init__: offset counts the characters read, token is the operand
\* being built, token_stack the open functions, arrays and parentheses.
TokenizerInit == [offset |-> 0, token |-> <<>>, items |-> <<>>, token_stack |-> <<>>,
                  err |-> <<>>]

Fail(st, name) == [st EXCEPT !.err = <<name>>]

\* Tokenizer.save_token
save_token(st) ==
    IF Len(st.token) > 0
    THEN [st EXCEPT !.items = Append(@, make_operand(st.token)), !.token = <<>>]
    ELSE st

\* SN_RE = ^[1-9](\.[0-9]+)?[Ee]$
MatchesSN(s) ==
    /\ Len(s) >= 2
    /\ s[1] \in (DigitSet \ {"0"})
    /\ s[Len(s)] \in {"E", "e"}
    /\ \/ Len(s) = 2
       \/ Len(s) >= 4 /\ s[2] = "." /\ AllIn(SubSeq(s, 3, Len(s) - 1), DigitSet)

\* Tokenizer.check_scientific_notation: whether the sign at the offset is consumed
check_scientific_notation(f, st) ==
    /\ f[st.offset + 1] \in {"+", "-"}
    /\ Len(st.token) >= 1
    /\ MatchesSN(st.token)

\* Tokenizer.assert_empty_token(can_follow): whether it raises
TokenNotEmpty(st, can_follow) ==
    Len(st.token) > 0 /\ st.token[Len(st.token)] \notin can_follow

RECURSIVE StringEnd(_, _)
\* STRING_REGEXES['"'] from the opening quote: the position of the closing quote,
\* a doubled quote being part of the string; 0 when the string is never closed.
StringEnd(f, p) ==
    IF p > Len(f) THEN 0
    ELSE IF f[p] # "\"" THEN StringEnd(f, p + 1)
    ELSE IF p + 1 <= Len(f) /\ f[p + 1] = "\"" THEN StringEnd(f, p + 2)
    ELSE p

\* Tokenizer._parse_string for a double-quoted string
parse_string(f, st) ==
    IF TokenNotEmpty(st, {":"}) THEN Fail(st, "TokenizerError")
    ELSE LET e == StringEnd(f, st.offset + 2)
         IN IF e = 0 THEN Fail(st, "TokenizerError")
            ELSE [st EXCEPT !.items = Append(@, make_operand(SubSeq(f, st.offset + 1, e))),
                            !.offset = e]

RECURSIVE SpaceRun(_, _)
\* WSPACE_RE.match(...).end(): the length of the run of spaces from position p
SpaceRun(f, p) == IF p <= Len(f) /\ f[p] = " " THEN 1 + SpaceRun(f, p + 1) ELSE 0

\* Tokenizer._parse_whitespace: one WSPACE token for the whole run
parse_whitespace(f, st) ==
    [st EXCEPT !.items = Append(@, Token(<<f[st.offset + 1]>>, "WSPACE", "")),
               !.offset = @ + SpaceRun(f, st.offset + 1)]

RECURSIVE LastNonSpace(_)
\* next(i for i in reversed(items) if i.type != WSPACE), None as an empty token
LastNonSpace(items) ==
    IF Len(items) = 0 THEN Token(<<>>, "", "")
    ELSE IF items[Len(items)].type # "WSPACE" THEN items[Len(items)]
    ELSE LastNonSpace(SubSeq(items, 1, Len(items) - 1))

\* Tokenizer._parse_operator
parse_operator(f, st) ==
    LET ch == f[st.offset + 1]
        two == IF st.offset + 2 <= Len(f) THEN SubSeq(f, st.offset + 1, st.offset + 2) ELSE <<>>
        prev == LastNonSpace(st.items)
        is_infix == prev.subtype = "CLOSE" \/ prev.type = "OP_POST" \/ prev.type = "OPERAND"
    IN IF two \in {<<">", "=">>, <<"<", "=">>, <<"<", ">">>}
       THEN [st EXCEPT !.items = Append(@, Token(two, "OP_IN", "")), !.offset = @ + 2]
       ELSE [st EXCEPT !.items = Append(@,
                 Token(<<ch>>,
                       IF ch = "%" THEN "OP_POST"
                       ELSE IF ch \in {"*", "/", "^", "&", "=", ">", "<"} THEN "OP_IN"
                       ELSE IF Len(st.items) = 0 THEN "OP_PRE"
                       ELSE IF is_infix THEN "OP_IN" ELSE "OP_PRE",
                       "")),
                       !.offset = @ + 1]

\* Tokenizer._parse_opener
parse_opener(f, st) ==
    LET ch == f[st.offset + 1] IN
    IF ch = "{" /\ TokenNotEmpty(st, {}) THEN Fail(st, "TokenizerError")
    ELSE LET tok == IF ch = "{" THEN make_subexp(<<"{">>, FALSE)
                    ELSE IF Len(st.token) > 0 THEN make_subexp(Append(st.token, "("), FALSE)
                    ELSE make_subexp(<<"(">>, FALSE)
         IN [st EXCEPT !.items = Append(@, tok), !.token_stack = Append(@, tok),
                       !.token = IF ch = "{" THEN @ ELSE <<>>, !.offset = @ + 1]

\* Tokenizer._parse_closer: IndexError on an empty stack, TokenizerError on a mismatch
parse_closer(f, st) ==
    IF Len(st.token_stack) = 0 THEN Fail(st, "IndexError")
    ELSE LET tok == get_closer(st.token_stack[Len(st.token_stack)])
         IN IF tok.value # <<f[st.offset + 1]>> THEN Fail(st, "TokenizerError")
            ELSE [st EXCEPT !.items = Append(@, tok),
                            !.token_stack = SubSeq(@, 1, Len(@) - 1),
                            !.offset = @ + 1]

\* Tokenizer._parse_separator
parse_separator(f, st) ==
    LET ch == f[st.offset + 1]
        tok == IF ch = ";" THEN make_separator(<<";">>)
               ELSE IF Len(st.token_stack) = 0 THEN Token(<<",">>, "OP_IN", "")
               ELSE IF st.token_stack[Len(st.token_stack)].type = "PAREN"
                    THEN Token(<<",">>, "OP_IN", "")
               ELSE make_separator(<<",">>)
    IN [st EXCEPT !.items = Append(@, tok), !.offset = @ + 1]

\* One round of the loop of Tokenizer._parse
ParseStep(f, st) ==
    IF check_scientific_notation(f, st)
    THEN [st EXCEPT !.token = Append(@, f[st.offset + 1]), !.offset = @ + 1]
    ELSE LET ch == f[st.offset + 1]
             s1 == IF ch \in TOKEN_ENDERS THEN save_token(st) ELSE st
         IN IF ch = "\"" THEN parse_string(f, s1)
            ELSE IF ch = " " THEN parse_whitespace(f, s1)
            ELSE IF ch \in OperatorChars THEN parse_operator(f, s1)
            ELSE IF ch \in {"{", "("} THEN parse_opener(f, s1)
            ELSE IF ch \in {")", "}"} THEN parse_closer(f, s1)
            ELSE IF ch \in {";", ","} THEN parse_separator(f, s1)
            ELSE [s1 EXCEPT !.token = Append(@, ch), !.offset = @ + 1]

RECURSIVE ParseLoop(_, _)
ParseLoop(f, st) ==
    IF st.err # <<>> THEN st
    ELSE IF st.offset >= Len(f) THEN save_token(st)
    ELSE ParseLoop(f, ParseStep(f, st))

\* Tokenizer(formula): the parsed state; items is empty for "" and holds one LITERAL
\* for a text without the leading "=".
Tokenizer(f) ==
    IF Len(f) = 0 THEN TokenizerInit
    ELSE IF f[1] = "=" THEN ParseLoop(f, [TokenizerInit EXCEPT !.offset = 1])
    ELSE [TokenizerInit EXCEPT !.items = <<Token(f, "LITERAL", "")>>]

----------------------------------------------------------------------------
(* Translator: openpyxl.formula.translate, called by copy_formula *)

\* \$?[1-9][0-9]{0,6}
IsRowPart(s) ==
    LET d == IF Len(s) >= 1 /\ s[1] = "$" THEN Tail(s) ELSE s
    IN Len(d) \in 1..7 /\ AllIn(d, DigitSet) /\ d[1] # "0"

\* \$?[A-Za-z]{1,3}
IsColPart(s) ==
    LET l == IF Len(s) >= 1 /\ s[1] = "$" THEN Tail(s) ELSE s
    IN Len(l) \in 1..3 /\ AllIn(l, LetterSet)

\* the length of the column snippet, \$?[A-Za-z]*, at the head of s
ColPartLen(s) ==
    LET from == IF Len(s) >= 1 /\ s[1] = "$" THEN 2 ELSE 1
        stops == {i \in from..Len(s) : s[i] \notin LetterSet}
    IN IF stops = {} THEN Len(s)
       ELSE (CHOOSE i \in stops : \A j \in stops : i <= j) - 1

\* ROW_RANGE_RE, COL_RANGE_RE: one colon between two row (column) snippets
MatchesRowRange(s) ==
    LET ps == Split(s, ":") IN Len(ps) = 2 /\ IsRowPart(ps[1]) /\ IsRowPart(ps[2])
MatchesColRange(s) ==
    LET ps == Split(s, ":") IN Len(ps) = 2 /\ IsColPart(ps[1]) /\ IsColPart(ps[2])
\* CELL_REF_RE: a column snippet followed by a row snippet
MatchesCellRef(s) ==
    LET k == ColPartLen(s)
    IN IsColPart(SubSeq(s, 1, k)) /\ IsRowPart(SubSeq(s, k + 1, Len(s)))

\* Translator.translate_row(row_str, rdelta)
translate_row(row_str, rdelta) ==
    IF row_str[1] = "$" THEN Ok(row_str)
    ELSE LET new_row == StrToInt(row_str) + rdelta
         IN IF new_row <= 0 THEN Raise("TranslatorError") ELSE Ok(IntToStr(new_row))

\* Translator.translate_col(col_str, cdelta)
translate_col(col_str, cdelta) ==
    IF col_str[1] = "$" THEN Ok(col_str)
    ELSE LET i == column_index_from_string(col_str)
             r == IF i.ok THEN get_column_letter(i.v + cdelta) ELSE i
         IN IF r.ok THEN r ELSE Raise("TranslatorError")

\* the concatenation of translated snippets, or the first exception raised
JoinResults(rs, sep) ==
    IF \E i \in 1..Len(rs) : ~rs[i].ok
    THEN rs[CHOOSE i \in 1..Len(rs) : ~rs[i].ok /\ \A j \in 1..(i - 1) : rs[j].ok]
    ELSE Ok(Concat([i \in 1..Len(rs) |-> IF i = 1 THEN rs[i].v ELSE sep \o rs[i].v]))

RECURSIVE translate_range(_, _, _)
\* Translator.translate_range(range_str, rdelta, cdelta), without a sheet name
translate_range(range_str, rdelta, cdelta) ==
    IF MatchesRowRange(range_str)
    THEN LET ps == Split(range_str, ":")
         IN JoinResults(<<translate_row(ps[1], rdelta), translate_row(ps[2], rdelta)>>, <<":">>)
    ELSE IF MatchesColRange(range_str)
    THEN LET ps == Split(range_str, ":")
         IN JoinResults(<<translate_col(ps[1], cdelta), translate_col(ps[2], cdelta)>>, <<":">>)
    ELSE IF HasChar(range_str, ":")
    THEN LET ps == Split(range_str, ":")
         IN JoinResults([i \in 1..Len(ps) |-> translate_range(ps[i], rdelta, cdelta)], <<":">>)
    ELSE IF ~MatchesCellRef(range_str) THEN Ok(range_str)
    ELSE LET k == ColPartLen(range_str)
         IN JoinResults(<<translate_col(SubSeq(range_str, 1, k), cdelta),
                          translate_row(SubSeq(range_str, k + 1, Len(range_str)), rdelta)>>,
                        <<>>)

\* the text a token contributes to the translated formula
TranslateToken(tok, rdelta, cdelta) ==
    IF tok.type = "OPERAND" /\ tok.subtype = "RANGE"
    THEN translate_range(tok.value, rdelta, cdelta)
    ELSE Ok(tok.value)

\* the digits of a text
DigitsOf(s) == SelectSeq(s, LAMBDA ch : ch \in DigitSet)

\* coordinate_to_tuple(coordinate): the text splits at its first digit (at its last
\* character when it has none) into column and row; (row, column), the ValueError of
\* int(row), or the KeyError of a column that is not one to three capital letters
coordinate_to_tuple(s) ==
    LET ds == {i \in 1..Len(s) : s[i] \in DigitSet}
        idx == IF ds = {} THEN Len(s) ELSE CHOOSE i \in ds : \A j \in ds : i <= j
        col == SubSeq(s, 1, idx - 1)
        row == Strip(SubSeq(s, idx, Len(s)))
    IN IF Len(s) = 0 THEN Raise("UnboundLocalError")
       ELSE IF ~IsDigits(row) THEN Raise("ValueError")
       ELSE IF ~(Len(col) \in 1..3 /\ AllIn(col, UpperSet)) THEN Raise("KeyError")
       ELSE Ok(<<StrToInt(DigitsOf(row)), ColumnIndex(col)>>)

\* Translator(formula, origin).translate_formula(dest) for a formula tokenized as tk:
\* the constructor reads the origin and tokenizes; translate_formula returns the text
\* of no tokens and of a literal as it is, and reads dest only after that
Translated(tk, origin, dest) ==
    LET o == coordinate_to_tuple(origin)
        d == IF Len(dest) = 0 THEN o ELSE coordinate_to_tuple(dest)
        tokens == tk.items
    IN IF ~o.ok THEN o
       ELSE IF tk.err # <<>> THEN Raise(tk.err[1])
       ELSE IF Len(tokens) = 0 THEN Ok(<<>>)
       ELSE IF tokens[1].type = "LITERAL" THEN Ok(tokens[1].value)
       ELSE IF ~d.ok THEN d
       ELSE LET out == JoinResults([i \in 1..Len(tokens) |->
                                       TranslateToken(tokens[i], d.v[1] - o.v[1],
                                                      d.v[2] - o.v[2])], <<>>)
            IN IF out.ok THEN Ok(<<"=">> \o out.v) ELSE out

\* Translator(formula, origin).translate_formula(dest), origin and dest coordinates
translate_formula(formula, origin, dest) == Translated(Tokenizer(formula), origin, dest)

----------------------------------------------------------------------------
(* Values and cells.  A Python value is its type and its text (str(value)), *)
(* so that 5 and "5", and None and "", stay distinct.                      *)

PyNone == [t |-> "NoneType", s |-> <<>>]
PyStr(s) == [t |-> "str", s |-> s]
PyInt(k) == [t |-> "int", s |-> IntToStr(k)]
PyFalse == [t |-> "bool", s |-> <<"F","a","l","s","e">>]
PyTrue == [t |-> "bool", s |-> <<"T","r","u","e">>]
\* a dict, written as its text and its number of keys: a value no cell can be bound
\* to and no set can contain
PyDict(s, k) == [t |-> "dict", s |-> s, len |-> k]

\* int(value) of an int or a bool
IntOf(value) ==
    IF value.t = "bool" THEN (IF value = PyTrue THEN 1 ELSE 0)
    ELSE IF value.s[1] = "-" THEN 0 - StrToInt(Tail(value.s)) ELSE StrToInt(value.s)

\* bool(value)
py_bool(value) ==
    IF value.t = "NoneType" THEN FALSE
    ELSE IF value.t = "str" THEN Len(value.s) > 0
    ELSE IF value.t = "dict" THEN value.len > 0
    ELSE IntOf(value) # 0

\* str(value)
py_str(value) == IF value.t = "NoneType" THEN <<"N","o","n","e">> ELSE value.s

\* openpyxl.cell.cell.ERROR_CODES
ERROR_CODES ==
    {<<"#","N","U","L","L","!">>, <<"#","D","I","V","/","0","!">>,
     <<"#","V","A","L","U","E","!">>, <<"#","R","E","F","!">>,
     <<"#","N","A","M","E","?">>, <<"#","N","U","M","!">>, <<"#","N","/","A">>}

\* a cell's data_type: one of the texts "n", "s", "f", "b", "e" unless it is set
\* from outside
DataType(ch) == PyStr(<<ch>>)

NoSlots == [k \in {} |-> PyNone]

\* Cell(worksheet, row, column): the attributes of a cell the model follows.  slots
\* holds parent, _style, _hyperlink and _comment once a caller has put a value of
\* its own there; the objects the library keeps in them are not part of the model.
Cell(row, column) ==
    [value |-> PyNone, data_type |-> DataType("n"), row |-> PyInt(row),
     column |-> PyInt(column), slots |-> NoSlots]

\* Cell._bind_value for a value a cell can hold: the stored value and its data_type;
\* a str longer than one character that starts with "=" is a formula
bind_value(cell, value) ==
    [cell EXCEPT
       !.value = value,
       !.data_type = DataType(IF value.t = "str"
                              THEN IF Len(value.s) > 1 /\ value.s[1] = "=" THEN "f"
                                   ELSE IF value.s \in ERROR_CODES THEN "e" ELSE "s"
                              ELSE IF value.t = "bool" THEN "b" ELSE "n")]

\* Worksheet._get_cell(row, column): the sheet with the cell created if absent
get_cell(cs, rc) == IF rc \in DOMAIN cs THEN cs ELSE (rc :> Cell(rc[1], rc[2])) @@ cs

\* cell.value = value: _bind_value resets data_type to "n" and raises ValueError for
\* a value of a type it cannot convert, the old value kept
value_setter(cell, value) ==
    IF value.t \in {"NoneType", "str", "int", "bool"}
    THEN [cell |-> bind_value(cell, value), exc |-> ""]
    ELSE [cell |-> [cell EXCEPT !.data_type = DataType("n")], exc |-> "ValueError"]

\* cell.value = value on the cell at rc of a sheet
set_value(cs, rc, value) ==
    LET r == value_setter(cs[rc], value)
    IN [cells |-> [cs EXCEPT ![rc] = r.cell], exc |-> r.exc]

\* get_column_letter(idx) for a value of any type: True counts as 1 and False as 0,
\* a dict cannot be looked up (TypeError), and no other value is a column index
letter_of(idx) ==
    IF idx.t \in {"int", "bool"} THEN get_column_letter(IntOf(idx))
    ELSE IF idx.t = "dict" THEN Raise("TypeError") ELSE Raise("ValueError")

\* Cell.coordinate: the letters of the cell's column followed by str(row)
coordinate(cell) ==
    LET l == letter_of(cell.column) IN IF l.ok THEN Ok(l.v \o py_str(cell.row)) ELSE l

\* Worksheet.cell binding the value even when it is None
ws_cell_always(cs, row, col, value) ==
    IF row < 1 \/ col < 1 THEN [cells |-> cs, exc |-> "ValueError"]
    ELSE set_value(get_cell(cs, <<row, col>>), <<row, col>>, value)

\* Worksheet.cell(row, column, value): ValueError below row or column 1; creates the
\* cell, binds value unless it is None
ws_cell(cs, row, col, value) ==
    IF row < 1 \/ col < 1 THEN [cells |-> cs, exc |-> "ValueError"]
    ELSE IF value # PyNone THEN set_value(get_cell(cs, <<row, col>>), <<row, col>>, value)
    ELSE [cells |-> get_cell(cs, <<row, col>>), exc |-> ""]

SetMax(S) == CHOOSE x \in S : \A y \in S : y <= x
\* Worksheet.max_row, Worksheet.max_column: 1 on a sheet without cells
max_row(cs) == IF DOMAIN cs = {} THEN 1 ELSE SetMax({rc[1] : rc \in DOMAIN cs})
max_column(cs) == IF DOMAIN cs = {} THEN 1 ELSE SetMax({rc[2] : rc \in DOMAIN cs})

\* the rectangle Worksheet.iter_rows / iter_cols walk: nothing on a sheet without
\* cells when no bound is given; else a bound given as 0 (or None) takes its default
IterBounds(cs, min_row, min_col, maxr, maxc) ==
    IF DOMAIN cs = {} /\ min_row = 0 /\ min_col = 0 /\ maxr = 0 /\ maxc = 0
    THEN [min_row |-> 1, min_col |-> 1, max_row |-> 0, max_col |-> 0]
    ELSE [min_row |-> IF min_row = 0 THEN 1 ELSE min_row,
          min_col |-> IF min_col = 0 THEN 1 ELSE min_col,
          max_row |-> IF maxr = 0 THEN max_row(cs) ELSE maxr,
          max_col |-> IF maxc = 0 THEN max_column(cs) ELSE maxc]
\* the sheet after the walk: every cell of the rectangle is created
iter_rows_cells(cs, b) ==
    cs @@ [rc \in (b.min_row..b.max_row) \X (b.min_col..b.max_col) |-> Cell(rc[1], rc[2])]
\* the values read, row by row
iter_rows_values(cs, b) ==
    LET c1 == iter_rows_cells(cs, b)
    IN [i \in 1..(b.max_row - b.min_row + 1) |->
          [j \in 1..(b.max_col - b.min_col + 1) |->
              c1[<<b.min_row + i - 1, b.min_col + j - 1>>].value]]

\* the outcome of a call: the sheet after it, the value returned, the exception raised
Outcome(cs, ret, exc) == [cells |-> cs, ret |-> ret, exc |-> exc]

\* Worksheet.iter_rows read to the end: the first cell of a rectangle that starts
\* below row or column 1 raises the ValueError of Worksheet.cell
iter_rows(cs, b) ==
    IF (b.min_row..b.max_row) \X (b.min_col..b.max_col) # {} /\ (b.min_row < 1 \/ b.min_col < 1)
    THEN Outcome(cs, PyNone, "ValueError")
    ELSE Outcome(iter_rows_cells(cs, b), iter_rows_values(cs, b), "")

----------------------------------------------------------------------------
(* ExcelHelper operations on the active sheet *)

\* ExcelHelper.write_cell(row, col, value)
write_cell(cs, row, col, value) ==
    LET c == ws_cell(cs, row, col, value) IN Outcome(c.cells, PyNone, c.exc)

\* ExcelHelper.read_cell(row, col)
read_cell(cs, row, col) ==
    LET c == ws_cell(cs, row, col, PyNone)
    IN IF c.exc # "" THEN Outcome(c.cells, PyNone, c.exc)
       ELSE Outcome(c.cells, c.cells[<<row, col>>].value, "")

RECURSIVE WriteCells(_, _, _)
\* write_cell over a list of <<row, col, value>>, in order, up to the first exception
WriteCells(cs, at, k) ==
    IF k > Len(at) THEN Outcome(cs, PyNone, "")
    ELSE LET out == write_cell(cs, at[k][1], at[k][2], at[k][3])
         IN IF out.exc # "" THEN out ELSE WriteCells(out.cells, at, k + 1)

\* ExcelHelper.write_row(row, data): data[i] goes to column i
write_row(cs, row, data) ==
    WriteCells(cs, [i \in 1..Len(data) |-> <<row, i, data[i]>>], 1)

\* ExcelHelper.write_column(col, data): data[i] goes to row i
write_column(cs, col, data) ==
    WriteCells(cs, [i \in 1..Len(data) |-> <<i, col, data[i]>>], 1)

\* ExcelHelper.read_row(row): active_sheet[row], columns 1..max_column; the key "0"
\* is no coordinate (IndexError) and the text of a negative row no range (ValueError)
read_row(cs, row) ==
    IF row < 0 THEN Outcome(cs, PyNone, "ValueError")
    ELSE IF row = 0 THEN Outcome(cs, PyNone, "IndexError")
    ELSE LET out == iter_rows(cs, IterBounds(cs, row, 0, row, max_column(cs)))
         IN Outcome(out.cells, out.ret[1], "")

\* ExcelHelper.read_column(col): active_sheet[get_column_letter(col)], rows 1..max_row
read_column(cs, col) ==
    LET l == get_column_letter(col)
        c == column_index_from_string(l.v)
        out == iter_rows(cs, IterBounds(cs, 0, c.v, 0, c.v))
    IN IF ~l.ok THEN Outcome(cs, PyNone, l.v[1])
       ELSE Outcome(out.cells, [i \in 1..Len(out.ret) |-> out.ret[i][1]], "")

RECURSIVE WriteRows(_, _, _, _, _)
\* the outer loop of write_range
WriteRows(cs, start_row, start_col, data, k) ==
    IF k > Len(data) THEN Outcome(cs, PyNone, "")
    ELSE LET out == WriteCells(cs, [j \in 1..Len(data[k]) |->
                                      <<start_row + k - 1, start_col + j - 1, data[k][j]>>], 1)
         IN IF out.exc # "" THEN out
            ELSE WriteRows(out.cells, start_row, start_col, data, k + 1)

\* ExcelHelper.write_range(start_row, start_col, data)
write_range(cs, start_row, start_col, data) == WriteRows(cs, start_row, start_col, data, 1)

\* ExcelHelper.read_range(start_row, start_col, end_row, end_col)
read_range(cs, start_row, start_col, end_row, end_col) ==
    iter_rows(cs, IterBounds(cs, start_row, start_col, end_row, end_col))

\* a style given to apply_style: a list of <<key, value>> in the order of the dict.
\* StyleableObject declares nine descriptors on a cell.
StyleDescriptors == {"font", "fill", "border", "alignment", "protection", "number_format",
                     "style", "quotePrefix", "pivotButton"}

\* the style names a new workbook accepts: "Normal" and the other built-in styles
\* (openpyxl.styles.builtins.styles)
BuiltinStyles ==
    {<<"N","o","r","m","a","l">>, <<"C","o","m","m","a">>, <<"C","u","r","r","e","n","c","y">>, <<"P","e","r","c","e","n","t">>, <<"C","o","m","m","a"," ","[","0","]">>,
     <<"C","u","r","r","e","n","c","y"," ","[","0","]">>, <<"H","y","p","e","r","l","i","n","k">>, <<"F","o","l","l","o","w","e","d"," ","H","y","p","e","r","l","i","n","k">>, <<"N","o","t","e">>,
     <<"W","a","r","n","i","n","g"," ","T","e","x","t">>, <<"T","i","t","l","e">>, <<"H","e","a","d","l","i","n","e"," ","1">>, <<"H","e","a","d","l","i","n","e"," ","2">>,
     <<"H","e","a","d","l","i","n","e"," ","3">>, <<"H","e","a","d","l","i","n","e"," ","4">>, <<"I","n","p","u","t">>, <<"O","u","t","p","u","t">>, <<"C","a","l","c","u","l","a","t","i","o","n">>,
     <<"C","h","e","c","k"," ","C","e","l","l">>, <<"L","i","n","k","e","d"," ","C","e","l","l">>, <<"T","o","t","a","l">>, <<"G","o","o","d">>, <<"B","a","d">>, <<"N","e","u","t","r","a","l">>,
     <<"A","c","c","e","n","t","1">>, <<"2","0"," ","%"," ","-"," ","A","c","c","e","n","t","1">>, <<"4","0"," ","%"," ","-"," ","A","c","c","e","n","t","1">>,
     <<"6","0"," ","%"," ","-"," ","A","c","c","e","n","t","1">>, <<"A","c","c","e","n","t","2">>, <<"2","0"," ","%"," ","-"," ","A","c","c","e","n","t","2">>,
     <<"4","0"," ","%"," ","-"," ","A","c","c","e","n","t","2">>, <<"6","0"," ","%"," ","-"," ","A","c","c","e","n","t","2">>, <<"A","c","c","e","n","t","3">>,
     <<"2","0"," ","%"," ","-"," ","A","c","c","e","n","t","3">>, <<"4","0"," ","%"," ","-"," ","A","c","c","e","n","t","3">>, <<"6","0"," ","%"," ","-"," ","A","c","c","e","n","t","3">>,
     <<"A","c","c","e","n","t","4">>, <<"2","0"," ","%"," ","-"," ","A","c","c","e","n","t","4">>, <<"4","0"," ","%"," ","-"," ","A","c","c","e","n","t","4">>,
     <<"6","0"," ","%"," ","-"," ","A","c","c","e","n","t","4">>, <<"A","c","c","e","n","t","5">>, <<"2","0"," ","%"," ","-"," ","A","c","c","e","n","t","5">>,
     <<"4","0"," ","%"," ","-"," ","A","c","c","e","n","t","5">>, <<"6","0"," ","%"," ","-"," ","A","c","c","e","n","t","5">>, <<"A","c","c","e","n","t","6">>,
     <<"2","0"," ","%"," ","-"," ","A","c","c","e","n","t","6">>, <<"4","0"," ","%"," ","-"," ","A","c","c","e","n","t","6">>, <<"6","0"," ","%"," ","-"," ","A","c","c","e","n","t","6">>,
     <<"E","x","p","l","a","n","a","t","o","r","y"," ","T","e","x","t">>, <<"P","a","n","d","a","s">>}

\* the slots of a cell that hold objects of the library
ObjectSlots == {"parent", "_style", "_hyperlink", "_comment"}
WithSlot(cell, name, value) ==
    [cell EXCEPT !.slots = [k \in DOMAIN @ \cup {name} |-> IF k = name THEN value ELSE @[k]]]
WithoutSlot(cell, name) == [cell EXCEPT !.slots = [k \in DOMAIN @ \ {name} |-> @[k]]]
\* `if not instance._style: instance._style = StyleArray()`
FreshStyle(cell) ==
    IF "_style" \in DOMAIN cell.slots /\ ~py_bool(cell.slots["_style"])
    THEN WithoutSlot(cell, "_style") ELSE cell

\* the outcome of one setattr: the cell after it and the exception raised
Set(cell, exc) == [cell |-> cell, exc |-> exc]

\* a style descriptor's __set__.  font, fill, border, alignment and protection add the
\* value to a collection of the workbook, which hashes it (TypeError for a dict);
\* number_format looks the value up among the built-in formats first; style takes the
\* name of a style the workbook knows (ValueError otherwise); quotePrefix and
\* pivotButton store an int in the cell's style array (TypeError for any other value;
\* every int of the model fits a C int).  The workbook is reached
\* through cell.parent and the style array is cell._style: a value of the caller's in
\* either slot has none of the attributes asked of it (AttributeError).
\* apply_style hands the values of the style to setattr as they are, building no
\* Font of a dict: with the style of test_apply_style, {"font": {"bold": True,
\* "color": "FF0000"}}, the call ends in the TypeError of the unhashable dict and the
\* cell has the font it had, so the font the test asserts is never set.
set_style(cell, key, value) ==
    LET c1 == FreshStyle(cell)
        lost == "parent" \in DOMAIN cell.slots
    IN IF key \in {"quotePrefix", "pivotButton"}
       THEN LET c2 == IF "_style" \in DOMAIN cell.slots /\ cell.slots["_style"] = PyNone
                      THEN WithoutSlot(cell, "_style") ELSE cell
            IN IF "_style" \in DOMAIN c2.slots THEN Set(c2, "AttributeError")
               ELSE IF value.t \notin {"int", "bool"} THEN Set(c2, "TypeError")
               ELSE Set(c2, "")
       ELSE IF key = "style"
       THEN IF lost THEN Set(c1, "AttributeError")
            ELSE IF value.t = "dict" THEN Set(c1, "TypeError")
            ELSE IF value.t = "str" /\ value.s \in BuiltinStyles
            THEN Set(WithoutSlot(c1, "_style"), "")
            ELSE Set(c1, "ValueError")
       ELSE IF key = "number_format"
       THEN IF lost THEN Set(cell, "AttributeError")
            ELSE IF value.t = "dict" THEN Set(cell, "TypeError")
            ELSE IF "_style" \in DOMAIN c1.slots THEN Set(c1, "AttributeError")
            ELSE Set(c1, "")
       ELSE IF lost THEN Set(cell, "AttributeError")
            ELSE IF value.t = "dict" THEN Set(c1, "TypeError")
            ELSE IF "_style" \in DOMAIN c1.slots THEN Set(c1, "AttributeError")
            ELSE Set(c1, "")

\* Cell.hyperlink = val: None clears the link; any other value becomes the target of
\* a Hyperlink, which must be a str (TypeError), the link takes the cell's coordinate,
\* and a cell without value takes the target as its value (no value for an empty one)
set_hyperlink(cell, val) ==
    LET c1 == WithoutSlot(cell, "_hyperlink")
    IN IF val = PyNone THEN Set(c1, "")
       ELSE IF val.t # "str" THEN Set(cell, "TypeError")
       ELSE IF ~coordinate(cell).ok THEN Set(cell, coordinate(cell).v[1])
       ELSE IF cell.value # PyNone THEN Set(c1, "")
       ELSE value_setter(c1, IF Len(val.s) > 0 THEN val ELSE PyNone)

\* Cell.comment = value: None clears the comment, unbinding the one the cell has; any
\* other value is asked for its parent, which only a Comment has (AttributeError)
set_comment(cell, value) ==
    IF value # PyNone THEN Set(cell, "AttributeError")
    ELSE IF "_comment" \in DOMAIN cell.slots /\ py_bool(cell.slots["_comment"])
    THEN Set(cell, "AttributeError")
    ELSE Set(WithoutSlot(cell, "_comment"), "")

\* setattr(cell, key, value): value, hyperlink and comment are properties with a
\* setter, the style descriptors are set as above, the slots of Cell and
\* StyleableObject (row, column, _value, data_type, parent, _style, _hyperlink,
\* _comment) take any value, __class__ takes a class only (TypeError), and any other
\* name is read-only or no attribute of a cell (AttributeError)
set_attr(cell, key, value) ==
    IF key = "value" THEN value_setter(cell, value)
    ELSE IF key \in StyleDescriptors THEN set_style(cell, key, value)
    ELSE IF key = "hyperlink" THEN set_hyperlink(cell, value)
    ELSE IF key = "comment" THEN set_comment(cell, value)
    ELSE IF key = "_value" THEN Set([cell EXCEPT !.value = value], "")
    ELSE IF key = "data_type" THEN Set([cell EXCEPT !.data_type = value], "")
    ELSE IF key = "row" THEN Set([cell EXCEPT !.row = value], "")
    ELSE IF key = "column" THEN Set([cell EXCEPT !.column = value], "")
    ELSE IF key \in ObjectSlots
    THEN Set(IF value = PyNone /\ key # "parent" THEN WithoutSlot(cell, key)
             ELSE WithSlot(cell, key, value), "")
    ELSE IF key = "__class__" THEN Set(cell, "TypeError")
    ELSE Set(cell, "AttributeError")

RECURSIVE SetAttrs(_, _, _, _)
\* the loop of apply_style, setattr(cell, key, value) up to the first exception
SetAttrs(cs, rc, style, k) ==
    IF k > Len(style) THEN Outcome(cs, PyNone, "")
    ELSE LET r == set_attr(cs[rc], style[k][1], style[k][2])
             c1 == [cs EXCEPT ![rc] = r.cell]
         IN IF r.exc # "" THEN Outcome(c1, PyNone, r.exc)
            ELSE SetAttrs(c1, rc, style, k + 1)

\* ExcelHelper.apply_style(row, col, style)
apply_style(cs, row, col, style) ==
    LET c == ws_cell(cs, row, col, PyNone)
    IN IF c.exc # "" THEN Outcome(c.cells, PyNone, c.exc)
       ELSE SetAttrs(c.cells, <<row, col>>, style, 1)

\* ExcelHelper.set_formula(row, col, formula)
set_formula(cs, row, col, formula) == write_cell(cs, row, col, PyStr(formula))

\* ExcelHelper.get_formula(row, col): data_type == "f" and value
get_formula(cs, row, col) ==
    LET c == ws_cell(cs, row, col, PyNone)
    IN IF c.exc # "" THEN Outcome(c.cells, PyNone, c.exc)
       ELSE Outcome(c.cells,
                    IF c.cells[<<row, col>>].data_type = DataType("f")
                    THEN c.cells[<<row, col>>].value ELSE PyFalse, "")

\* Tokenizer(formula) for a value of any type: a false value has no tokens, and the
\* first character of any other value that is no str cannot be read (the KeyError of
\* a dict, the TypeError of a number)
TokenizerOf(formula) ==
    IF formula.t = "str" THEN Tokenizer(formula.s)
    ELSE IF ~py_bool(formula) THEN TokenizerInit
    ELSE Fail(TokenizerInit, IF formula.t = "dict" THEN "KeyError" ELSE "TypeError")

\* copy_formula copying the source cell whatever it holds
copy_formula_any(cs, from_row, from_col, to_row, to_col) ==
    LET s1 == ws_cell(cs, from_row, from_col, PyNone)
        s2 == ws_cell(s1.cells, to_row, to_col, PyNone)
        source_cell == s2.cells[<<from_row, from_col>>]
        origin == coordinate(source_cell)
        dest == coordinate(s2.cells[<<to_row, to_col>>])
        tk == TokenizerOf(source_cell.value)
        tr == Translated(tk, origin.v, dest.v)
        bound == set_value(s2.cells, <<to_row, to_col>>, PyStr(tr.v))
    IN IF s1.exc # "" THEN Outcome(s1.cells, PyNone, s1.exc)
       ELSE IF s2.exc # "" THEN Outcome(s2.cells, PyNone, s2.exc)
       ELSE IF source_cell.data_type # DataType("f")
       THEN Outcome([s2.cells EXCEPT ![<<to_row, to_col>>].value = source_cell.value,
                                     ![<<to_row, to_col>>].data_type = source_cell.data_type],
                    PyNone, "")
       ELSE IF ~origin.ok THEN Outcome(s2.cells, PyNone, origin.v[1])
       ELSE IF ~coordinate_to_tuple(origin.v).ok
       THEN Outcome(s2.cells, PyNone, coordinate_to_tuple(origin.v).v[1])
       ELSE IF tk.err # <<>> THEN Outcome(s2.cells, PyNone, tk.err[1])
       ELSE IF ~dest.ok THEN Outcome(s2.cells, PyNone, dest.v[1])
       ELSE IF ~tr.ok THEN Outcome(s2.cells, PyNone, tr.v[1])
       ELSE Outcome(bound.cells, PyNone, bound.exc)

\* ExcelHelper.copy_formula(from_row, from_col, to_row, to_col): the source cell is
\* created, then the target cell; for a formula the Translator is built on the
\* source's value and coordinate (reading the coordinate and tokenizing the value)
\* and asked for the formula at the target's coordinate; an exception leaves the
\* target as it was.  The Translator shifts the rows by to_row - from_row as well as
\* the columns by to_col - from_col: "=SUM(A1:A5)" copied from (1, 1) to (2, 2) is
\* "=SUM(B2:B6)", not the "=SUM(B1:B5)" test_copy_formula asserts.
copy_formula(cs, from_row, from_col, to_row, to_col) ==
    LET s1 == ws_cell(cs, from_row, from_col, PyNone)
        s2 == ws_cell(s1.cells, to_row, to_col, PyNone)
        source_cell == s2.cells[<<from_row, from_col>>]
        origin == coordinate(source_cell)
        dest == coordinate(s2.cells[<<to_row, to_col>>])
        tk == TokenizerOf(source_cell.value)
        tr == Translated(tk, origin.v, dest.v)
        bound == set_value(s2.cells, <<to_row, to_col>>, PyStr(tr.v))
    IN IF s1.exc # "" THEN Outcome(s1.cells, PyNone, s1.exc)
       ELSE IF s2.exc # "" THEN Outcome(s2.cells, PyNone, s2.exc)
       ELSE IF source_cell.data_type # DataType("f") THEN Outcome(s2.cells, PyNone, "")
       ELSE IF ~origin.ok THEN Outcome(s2.cells, PyNone, origin.v[1])
       ELSE IF ~coordinate_to_tuple(origin.v).ok
       THEN Outcome(s2.cells, PyNone, coordinate_to_tuple(origin.v).v[1])
       ELSE IF tk.err # <<>> THEN Outcome(s2.cells, PyNone, tk.err[1])
       ELSE IF ~dest.ok THEN Outcome(s2.cells, PyNone, dest.v[1])
       ELSE IF ~tr.ok THEN Outcome(s2.cells, PyNone, tr.v[1])
       ELSE Outcome(bound.cells, PyNone, bound.exc)

\* get_column_letter(col) + str(row)
CellName(row, col) ==
    LET l == get_column_letter(col) IN IF l.ok THEN Ok(l.v \o IntToStr(row)) ELSE l

\* the formula text NAME(start:end) of sum_range, average_range and count_range, or
\* the ValueError of get_column_letter
RangeFormula(name, start_row, start_col, end_row, end_col) ==
    JoinResults(<<Ok(<<"=">> \o name \o <<"(">>), CellName(start_row, start_col),
                  Ok(<<":">>), CellName(end_row, end_col), Ok(<<")">>)>>, <<>>)

\* self.set_formula(result_row, result_col, formula), reached when the text was built
SetBuilt(cs, result_row, result_col, formula) ==
    IF formula.ok THEN set_formula(cs, result_row, result_col, formula.v)
    ELSE Outcome(cs, PyNone, formula.v[1])

\* ExcelHelper.sum_range(start_row, start_col, end_row, end_col, result_row, result_col)
sum_range(cs, a, result_row, result_col) ==
    SetBuilt(cs, result_row, result_col,
             RangeFormula(<<"S","U","M">>, a[1], a[2], a[3], a[4]))

\* ExcelHelper.average_range(...)
average_range(cs, a, result_row, result_col) ==
    SetBuilt(cs, result_row, result_col,
             RangeFormula(<<"A","V","E","R","A","G","E">>, a[1], a[2], a[3], a[4]))

\* ExcelHelper.count_range(...)
count_range(cs, a, result_row, result_col) ==
    SetBuilt(cs, result_row, result_col,
             RangeFormula(<<"C","O","U","N","T">>, a[1], a[2], a[3], a[4]))

\* ExcelHelper.if_formula(condition_row, condition_col, true_value, false_value, ...)
if_formula(cs, condition_row, condition_col, true_value, false_value, result_row, result_col) ==
    SetBuilt(cs, result_row, result_col,
             JoinResults(<<Ok(<<"=","I","F","(">>), CellName(condition_row, condition_col),
                           Ok(<<",", " ", "\"">> \o true_value \o <<"\"", ",", " ", "\"">>
                                  \o false_value \o <<"\"", ")">>)>>, <<>>))

\* ExcelHelper.vlookup(lookup cell, table range, col_index, result cell)
vlookup(cs, lookup_row, lookup_col, a, col_index, result_row, result_col) ==
    SetBuilt(cs, result_row, result_col,
             JoinResults(<<Ok(<<"=","V","L","O","O","K","U","P","(">>),
                           CellName(lookup_row, lookup_col), Ok(<<",", " ">>),
                           CellName(a[1], a[2]), Ok(<<":">>), CellName(a[3], a[4]),
                           Ok(<<",", " ">> \o IntToStr(col_index)
                                  \o <<",", " ", "F","A","L","S","E", ")">>)>>, <<>>))

\* ExcelHelper.create_new_workbook: a sheet without cells
NewSheet == [rc \in {} |-> Cell(1, 1)]
\* openpyxl.Workbook(): one sheet, titled "Sheet", with no column width set
FirstSheet == "Sheet"
NoWidths == [l \in {} |-> 0]
NoSheets == [t \in {} |-> [cells |-> NewSheet, widths |-> NoWidths]]
\* ExcelHelper.__init__: workbook and active_sheet are None.  A workbook has at least
\* one sheet, so a helper without workbook is one without sheets; the title of its
\* active sheet is the empty text.
NoSheet == ""

\* select_sheet raising nothing for a name the workbook has not
select_sheet_quiet(sheetnames, active_sheet, sheet_name) ==
    [active |-> IF sheet_name \in sheetnames THEN sheet_name ELSE active_sheet, exc |-> ""]

\* ExcelHelper.select_sheet(sheet_name): the title of the active sheet after the
\* call and the exception raised; None, the workbook of a helper without one, has no
\* sheetnames
select_sheet(sheetnames, active_sheet, sheet_name) ==
    IF sheetnames = {} THEN [active |-> active_sheet, exc |-> "AttributeError"]
    ELSE IF sheet_name \in sheetnames THEN [active |-> sheet_name, exc |-> ""]
    ELSE [active |-> active_sheet, exc |-> "ValueError"]

\* `if sheet_name: self.select_sheet(sheet_name)`: no sheet name is the empty text
SelectIfNamed(sheetnames, active_sheet, sheet_name) ==
    IF sheet_name = "" THEN [active |-> active_sheet, exc |-> ""]
    ELSE select_sheet(sheetnames, active_sheet, sheet_name)

\* the outcome of a call that may change the active sheet: its title and cells after
BookOutcome(title, cs, ret, exc) == [active |-> title, cells |-> cs, ret |-> ret, exc |-> exc]

\* ExcelHelper.to_dataframe(sheet_name, start_row, start_col) on a workbook whose
\* sheets are given by title: the first row read is the header of the frame, the
\* others its rows; data[0] of nothing read is an IndexError.  Without workbook
\* neither select_sheet nor the read of the active sheet can be done.
to_dataframe(sheets, active_sheet, sheet_name, start_row, start_col) ==
    LET sel == SelectIfNamed(DOMAIN sheets, active_sheet, sheet_name)
        cs == sheets[sel.active]
        data == read_range(cs, start_row, start_col, max_row(cs), max_column(cs))
    IN IF DOMAIN sheets = {} THEN BookOutcome(NoSheet, NewSheet, PyNone, "AttributeError")
       ELSE IF sel.exc # "" THEN BookOutcome(sel.active, cs, PyNone, sel.exc)
       ELSE IF data.exc # "" THEN BookOutcome(sel.active, data.cells, PyNone, data.exc)
       ELSE IF Len(data.ret) = 0 THEN BookOutcome(sel.active, data.cells, PyNone, "IndexError")
       ELSE BookOutcome(sel.active, data.cells,
                        [columns |-> data.ret[1], rows |-> Tail(data.ret)], "")

\* ExcelHelper.from_dataframe(df, sheet_name, start_row, start_col): df is the frame's
\* column labels and its rows of values (df.columns.tolist(), df.values.tolist());
\* a frame without rows or without columns is empty
from_dataframe(sheets, active_sheet, df, sheet_name, start_row, start_col) ==
    LET sel == SelectIfNamed(DOMAIN sheets, active_sheet, sheet_name)
        cs == sheets[sel.active]
        out == write_range(cs, start_row, start_col, <<df.columns>> \o df.rows)
        none == DOMAIN sheets = {}
    IN IF Len(df.rows) = 0 \/ Len(df.columns) = 0
       THEN BookOutcome(active_sheet, IF none THEN NewSheet ELSE sheets[active_sheet],
                        PyNone, "ValueError")
       ELSE IF none THEN BookOutcome(NoSheet, NewSheet, PyNone, "AttributeError")
       ELSE IF sel.exc # "" THEN BookOutcome(sel.active, cs, PyNone, sel.exc)
       ELSE BookOutcome(sel.active, out.cells, PyNone, out.exc)

\* len(value): the length of a str, the number of keys of a dict, TypeError for
\* None, a number or a bool
py_len(value) ==
    IF value.t = "str" THEN Ok(Len(value.s))
    ELSE IF value.t = "dict" THEN Ok(value.len) ELSE Raise("TypeError")

\* the body of the inner loop of auto_fit_columns for one cell, an exception of
\* len(cell.value) suppressed: max_length after it
FitCell(value, max_length) ==
    IF Len(py_str(value)) > max_length
    THEN (IF py_len(value).ok THEN py_len(value).v ELSE max_length)
    ELSE max_length

RECURSIVE ColumnMaxLength(_, _, _, _, _)
\* the inner loop over the cells of column col, rows row..last
ColumnMaxLength(cs, col, row, last, max_length) ==
    IF row > last THEN max_length
    ELSE ColumnMaxLength(cs, col, row + 1, last, FitCell(cs[<<row, col>>].value, max_length))

\* ExcelHelper.auto_fit_columns(): Worksheet.columns walks the sheet column by column
\* (nothing on a sheet without cells), creating the cells of each column as it comes
\* to it; the width max_length + 2 is set for the letters of the column attribute of
\* the column's first cell, a later column with the same letters overwriting it.  The
\* first column whose first cell has no letters (a column beyond ZZZ) ends the walk
\* with the exception of get_column_letter.
auto_fit_columns(cs, ws) ==
    LET b == IterBounds(cs, 0, 0, 0, 0)
        first(c) == IF <<b.min_row, c>> \in DOMAIN cs THEN cs[<<b.min_row, c>>]
                    ELSE Cell(b.min_row, c)
        column_letter(c) == letter_of(first(c).column)
        stop == {c \in b.min_col..b.max_col : ~column_letter(c).ok}
        walked == IF stop = {} THEN b.max_col ELSE CHOOSE c \in stop : \A d \in stop : c <= d
        last == IF stop = {} THEN b.max_col ELSE walked - 1
        c1 == iter_rows_cells(cs, [b EXCEPT !.max_col = walked])
        \* the columns whose first cell names another column than its own
        odd == {rc[2] : rc \in {x \in DOMAIN cs : /\ x[1] = b.min_row
                                                  /\ x[2] \in b.min_col..last
                                                  /\ cs[x].column # PyInt(x[2])}}
        fitted == [l \in {column_letter(c).v : c \in b.min_col..last} |->
                     LET k == column_index_from_string(l).v
                         named == {d \in odd : column_letter(d).v = l}
                                     \cup ({k} \cap ((b.min_col..last) \ odd))
                     IN ColumnMaxLength(c1, SetMax(named), b.min_row, b.max_row, 0) + 2]
    IN [cells |-> c1, ret |-> PyNone,
        exc |-> IF stop = {} THEN "" ELSE column_letter(walked).v[1],
        widths |-> fitted @@ ws]

----------------------------------------------------------------------------
(* Bounds and inputs *)

\* the cells the copy scenario addresses
MaxRow == 2
MaxCol == 2
\* the cells, rows and columns the read and write helpers are called on (the data
\* lists reach further right and down), and the number of calls
MaxSheetRow == 1
MaxSheetCol == 1
MaxCalls == 3
\* the column indices encoded
MaxColumn == 16384

Rows == 1..MaxRow
Cols == 1..MaxCol
SheetRows == 1..MaxSheetRow
SheetCols == 1..MaxSheetCol

\* the cells and the writes of the column width scenario
MaxFitRow == 2
MaxFitCol == 2
MaxFitWrites == 2
FitRows == 1..MaxFitRow
FitCols == 1..MaxFitCol
\* Short
Short == <<"S","h","o","r","t">>
\* A very long column header
LongHeader == <<"A"," ","v","e","r","y"," ","l","o","n","g"," ","c","o","l","u","m","n"," ","h","e","a","d","e","r">>
FitTestData == <<<<PyStr(Short), PyStr(LongHeader)>>>>
FitValues == {PyStr(Short), PyStr(LongHeader), PyStr(<<>>), PyInt(1234567), PyNone}
\* the style of test_apply_style, {"font": {"bold": True, "color": "FF0000"}},
\* styles that set the value of the cell, one of them after an unknown attribute,
\* and styles that set another attribute of the cell
FontStyle == <<<<"font", PyDict(<<"{","'","b","o","l","d","'",":"," ","T","r","u","e",","," ","'","c","o","l","o","r","'",":"," ","'","F","F","0","0","0","0","'","}">>, 2)>>>>
FitStyles == {FontStyle,
              <<<<"value", PyInt(1234567)>>, <<"number_format", PyStr(<<"0">>)>>>>,
              <<<<"value", PyNone>>>>,
              <<<<"bold", PyFalse>>, <<"value", PyStr(Short)>>>>,
              <<<<"quotePrefix", PyTrue>>, <<"data_type", DataType("n")>>>>}

\* =SUM(A1:A5)
F_Sum == <<"=","S","U","M","(","A","1",":","A","5",")">>
\* =SUM($A$1:$A$5)
F_SumAbs == <<"=","S","U","M","(","$","A","$","1",":","$","A","$","5",")">>
\* =IF(A1, "True", "False")
F_If == <<"=","I","F","(","A","1",","," ","\"","T","r","u","e","\"",","," ","\"","F","a","l","s","e","\"",")">>
\* =A1
F_A1 == <<"=","A","1">>
\* =$A1+A$1
F_Mixed == <<"=","$","A","1","+","A","$","1">>
\* =SUM($B2:C$3)
F_MixedRange == <<"=","S","U","M","(","$","B","2",":","C","$","3",")">>
\* =B2*$C$3
F_Product == <<"=","B","2","*","$","C","$","3">>
\* =IF(B2,"A1  C3",10)
F_Quoted == <<"=","I","F","(","B","2",",","\"","A","1"," "," ","C","3","\"",",","1","0",")">>
\* ="B2"&B2
F_QuotedFirst == <<"=","\"","B","2","\"","&","B","2">>
\* =LOG10(B2)+1E+5
F_Log == <<"=","L","O","G","1","0","(","B","2",")","+","1","E","+","5">>
\* =IF(B2>=A1,B2,-A1)
F_Compare == <<"=","I","F","(","B","2",">","=","A","1",",","B","2",",","-","A","1",")">>
\* =Total*B2
F_Named == <<"=","T","o","t","a","l","*","B","2">>
\* =SUM(B:C)+SUM(2:$3)
F_ColRow == <<"=","S","U","M","(","B",":","C",")","+","S","U","M","(","2",":","$","3",")">>
\* =a1+B2
F_Lower == <<"=","a","1","+","B","2">>
\* =$A$1  +$B$2
F_SpacesAbs == <<"=","$","A","$","1"," "," ","+","$","B","$","2">>
\* =A1  +B1
F_Spaces == <<"=","A","1"," "," ","+","B","1">>
\* =ZZZ1
F_LastCol == <<"=","Z","Z","Z","1">>

\* well-formed formulas: balanced parentheses, closed string constants
Formulas == {F_Sum, F_SumAbs, F_If, F_A1, F_Mixed, F_MixedRange, F_Product, F_Quoted, F_QuotedFirst, F_Log, F_Compare, F_Named, F_ColRow, F_Lower, F_SpacesAbs, F_Spaces, F_LastCol}

Hello == <<"H","e","l","l","o">>
\* values that are not formulas: a text, a number, nothing, the empty text, and
\* the formula marker alone
PlainValues == {PyStr(Hello), PyInt(5), PyNone, PyStr(<<>>), PyStr(<<"=">>)}
\* what the target holds before the copy
TargetValues == {PyStr(<<"o","l","d">>), PyInt(7)}

\* values written by the write helpers
ValX == PyStr(<<"X">>)
ValY == PyStr(<<"Y">>)
Values == {ValX, PyNone}
RowData == {<<ValX>>, <<PyInt(7), ValX>>, <<ValY, PyNone>>}
RangeData == {<<<<ValX, ValY>>, <<PyInt(7), ValX>>>>, <<<<ValY, PyNone>>>>}
RangeArgs == {<<1, 1, 5, 1>>, <<1, 2, 3, 27>>}

----------------------------------------------------------------------------
(* State machine *)

\* a workbook without tables
NoTables == {}
\* the paths of workbook files: the helper's filename (the excel_file of the tests)
\* and another file, and a disk without files
Filename == "test_excel.xlsx"
OtherFile == "report.xlsx"
NoFiles == <<>>

\* Workbook.create_sheet("PivotTable"): the title as it is in a workbook that has no
\* sheet of that title, else followed by the number after the highest one in use
PivotTitles == <<"PivotTable", "PivotTable1", "PivotTable2", "PivotTable3", "PivotTable4",
                 "PivotTable5", "PivotTable6", "PivotTable7">>
PivotTitle(sheetnames) ==
    IF PivotTitles[1] \notin sheetnames THEN PivotTitles[1]
    ELSE PivotTitles[SetMax({i \in 1..Len(PivotTitles) : PivotTitles[i] \in sheetnames}) + 1]

\* Pivot Table
PivotHeading == PyStr(<<"P","i","v","o","t"," ","T","a","b","l","e">>)

RECURSIVE AppendCells(_, _, _, _)
\* Worksheet.append(row) at sheet row r: a new cell for each value, left to right, up
\* to the first value no cell can hold
AppendCells(cs, r, row, j) ==
    IF j > Len(row) THEN Outcome(cs, PyNone, "")
    ELSE LET c == value_setter(Cell(r, j), row[j])
         IN IF c.exc # "" THEN Outcome(cs, PyNone, c.exc)
            ELSE AppendCells((<<r, j>> :> c.cell) @@ cs, r, row, j + 1)

RECURSIVE AppendRows(_, _, _)
\* for row in source_data: pivot_sheet.append(row): each row goes under the one
\* appended before it, the first under the heading
AppendRows(cs, source_data, k) ==
    IF k > Len(source_data) THEN Outcome(cs, PyNone, "")
    ELSE LET out == AppendCells(cs, k + 1, source_data[k], 1)
         IN IF out.exc # "" THEN out ELSE AppendRows(out.cells, source_data, k + 1)

\* ExcelHelper.create_pivot_table(source_data, pivot_location, rows, columns, values)
\* on a workbook with the sheets and tables given: the new sheet's title and cells,
\* the tables after the call and the exception raised.  The sheet is created and
\* headed first; source_data[0] of no data is an IndexError; the table "PivotTable"
\* over A1:<last column><number of rows> is refused when the workbook has a table of
\* that name (ValueError); the rows are appended; and a worksheet has no attribute
\* pivot_tables, so the call never returns (AttributeError).  A helper without
\* workbook (no sheet names) creates no sheet: None has no create_sheet.
create_pivot_table(sheetnames, tbls, source_data) ==
    LET title == PivotTitle(sheetnames)
        heading == write_cell(NewSheet, 1, 1, PivotHeading).cells
        letter == get_column_letter(Len(source_data[1]))
        ref == <<"A", "1", ":">> \o letter.v \o IntToStr(Len(source_data))
        added == tbls \cup {[sheet |-> title, ref |-> ref, named |-> FALSE]}
        rows == AppendRows(heading, source_data, 1)
        Result(cs, ts, exc) ==
            [title |-> title, cells |-> cs, tables |-> ts, ret |-> PyNone, exc |-> exc]
    IN IF sheetnames = {}
       THEN [title |-> NoSheet, cells |-> NewSheet, tables |-> tbls, ret |-> PyNone,
             exc |-> "AttributeError"]
       ELSE IF Len(source_data) = 0 THEN Result(heading, tbls, "IndexError")
       ELSE IF ~letter.ok THEN Result(heading, tbls, "ValueError")
       ELSE IF tbls # {} THEN Result(heading, tbls, "ValueError")
       ELSE IF rows.exc # "" THEN Result(rows.cells, added, rows.exc)
       ELSE Result(rows.cells, added, "AttributeError")

\* range_boundaries(ref) of a table's ref
TableBounds(ref) ==
    LET ps == Split(ref, ":")
        a == coordinate_to_tuple(ps[1]).v
        z == coordinate_to_tuple(ps[2]).v
    IN [min_row |-> a[1], min_col |-> a[2], max_row |-> z[1], max_col |-> z[2]]

\* inlineStr
InlineStr == PyStr(<<"i","n","l","i","n","e","S","t","r">>)

\* a cell written to the file and read back from it (the writer's write_cell, the
\* reader's parse_cell): a cell under its key with the value and the data_type it had;
\* the empty text is written as an element without content, which is read as no value
\* of the data_type the element names ("inlineStr" for a string, "n" where it names
\* none, as for a formula)
reloaded(rc, cell) ==
    IF cell.value = PyStr(<<>>)
    THEN [Cell(rc[1], rc[2]) EXCEPT
            !.data_type = IF cell.data_type = DataType("s") THEN InlineStr
                          ELSE IF cell.data_type = DataType("f") THEN DataType("n")
                          ELSE cell.data_type]
    ELSE [Cell(rc[1], rc[2]) EXCEPT !.value = cell.value, !.data_type = cell.data_type]

\* the sheet that load_workbook reads from the file a sheet was saved to: the cells
\* with a value and the column widths.  A cell without value is written only when it
\* has a style or a comment; the cells meant are those the helper's reads and writes
\* leave, which have neither.
saved_sheet(sheet) ==
    [cells |-> [rc \in {x \in DOMAIN sheet.cells : sheet.cells[x].value # PyNone} |->
                   reloaded(rc, sheet.cells[rc])],
     widths |-> sheet.widths]

\* a workbook: its sheets by title (title -> [cells, widths]), its tables and the
\* title of its active sheet (Workbook.active); the helper without workbook has none
Workbook(sheets, tbls, act) == [sheets |-> sheets, tables |-> tbls, active |-> act]
NoWorkbook == Workbook(NoSheets, NoTables, NoSheet)

\* Workbook.save(path) and load_workbook(path) taken together: the workbook that is
\* read from the file wb was saved to.  The file names the active sheet, and the
\* columns of its tables have names.
saved(wb) ==
    Workbook([title \in DOMAIN wb.sheets |-> saved_sheet(wb.sheets[title])],
             {[tb EXCEPT !.named = TRUE] : tb \in wb.tables}, wb.active)

\* ExcelHelper.save_workbook() on the helper's workbook: the workbook after the call
\* and the files after it.  Writing a table whose columns have no names yet reads its
\* header from the sheet, which creates the cells of the table's range; the sheet's
\* cells were written before that.  None, the workbook of a helper without one, has
\* no save.
save_workbook(wb, fs) ==
    LET ranged(title, cs) ==
            IF \E tb \in wb.tables : tb.sheet = title /\ ~tb.named
            THEN iter_rows_cells(cs, TableBounds((CHOOSE tb \in wb.tables : tb.sheet = title).ref))
            ELSE cs
        named == {[tb EXCEPT !.named = TRUE] : tb \in wb.tables}
    IN IF wb = NoWorkbook THEN [workbook |-> wb, files |-> fs, exc |-> "AttributeError"]
       ELSE [workbook |-> Workbook([title \in DOMAIN wb.sheets |->
                                       [wb.sheets[title] EXCEPT !.cells = ranged(title, @)]],
                                   named, wb.active),
             files |-> (Filename :> saved(wb)) @@ fs,
             exc |-> ""]

\* ExcelHelper.open_workbook(): the workbook read from the file of the helper's
\* filename takes the place of the helper's, and the sheet the file names active is
\* the active sheet; FileNotFoundError, and the helper as it was, when there is no
\* such file
open_workbook(wb, active_sheet, fs) ==
    IF Filename \notin DOMAIN fs
    THEN [workbook |-> wb, active_sheet |-> active_sheet, exc |-> "FileNotFoundError"]
    ELSE [workbook |-> fs[Filename], active_sheet |-> fs[Filename].active, exc |-> ""]

\* the position of the first a followed by b in s at or after position i, 0 for none
FindPair(s, a, b, i) ==
    LET ps == {j \in i..(Len(s) - 1) : s[j] = a /\ s[j + 1] = b}
    IN IF ps = {} THEN 0 ELSE CHOOSE j \in ps : \A k \in ps : j <= k

\* the words with a meaning of their own in a template expression: operators, the
\* names the template engine defines itself, and the names of constants
TemplateOperators == {<<"a","n","d">>, <<"o","r">>, <<"n","o","t">>, <<"i","n">>, <<"i","s">>,
                      <<"i","f">>, <<"e","l","s","e">>}
TemplateConstants == {<<"t","r","u","e">>, <<"T","r","u","e">>, <<"f","a","l","s","e">>,
                      <<"F","a","l","s","e">>, <<"n","o","n","e">>, <<"N","o","n","e">>}
TemplateGlobals == {<<"r","a","n","g","e">>, <<"d","i","c","t">>, <<"l","i","p","s","u","m">>,
                    <<"c","y","c","l","e","r">>, <<"j","o","i","n","e","r">>,
                    <<"n","a","m","e","s","p","a","c","e">>}

\* the text of one {{ expression }} under a context (name -> value): an integer is
\* its own text, a constant the text of its value, a name the text of its value in
\* the context and nothing when the context has no such name; no expression at all
\* is a TemplateSyntaxError.  Names, constants and integers are the expressions
\* covered: any other expression, an operator word and a name of the engine that
\* the context does not define are outside what is modelled and are given as a
\* TemplateSyntaxError too.
render_expression(expr, context) ==
    LET e == Strip(expr)
    IN IF Len(e) = 0 THEN Raise("TemplateSyntaxError")
       ELSE IF AllIn(e, DigitSet)
       THEN (IF e[1] # "0" THEN Ok(e)
             ELSE IF AllIn(e, {"0"}) THEN Ok(<<"0">>) ELSE Raise("TemplateSyntaxError"))
       ELSE IF ~(e[1] \in LetterSet \cup {"_"} /\ AllIn(e, LetterSet \cup DigitSet \cup {"_"}))
       THEN Raise("TemplateSyntaxError")
       ELSE IF e \in TemplateOperators \cup (TemplateGlobals \ DOMAIN context)
       THEN Raise("TemplateSyntaxError")
       ELSE IF e \in TemplateConstants THEN Ok(<<ToUpper(e[1])>> \o Tail(e))
       ELSE IF e \in DOMAIN context THEN Ok(py_str(context[e]))
       ELSE Ok(<<>>)

RECURSIVE render_from(_, _, _)
\* the text of a template from position i on: the text up to the next "{{" as it
\* is, the expression up to the "}}" after it rendered, and so on; an expression
\* that is not closed is a TemplateSyntaxError
render_from(s, i, context) ==
    LET open == FindPair(s, "{", "{", i)
        close == FindPair(s, "}", "}", open + 2)
        value == render_expression(SubSeq(s, open + 2, close - 1), context)
        rest == render_from(s, close + 2, context)
    IN IF open = 0 THEN Ok(SubSeq(s, i, Len(s)))
       ELSE IF close = 0 THEN Raise("TemplateSyntaxError")
       ELSE IF ~value.ok THEN value
       ELSE IF ~rest.ok THEN rest
       ELSE Ok(SubSeq(s, i, open - 1) \o value.v \o rest.v)

\* Template(source).render(context) of the template engine, for a source whose only
\* template syntax is {{ expression }} (no statement, no comment): a newline at the
\* very end of the source is dropped
render(source, context) ==
    render_from(IF Len(source) > 0 /\ source[Len(source)] = "\n"
                THEN SubSeq(source, 1, Len(source) - 1) ELSE source, 1, context)

\* `"{{" in cell.value and "}}" in cell.value`
IsPlaceholder(value) == FindPair(value, "{", "{", 1) > 0 /\ FindPair(value, "}", "}", 1) > 0

RECURSIVE render_cells(_, _, _)
\* the loop of use_template over the cells of the sheet, in the order of todo (the
\* keys still to come): a string cell with a placeholder is given its rendered text
\* as value; the first failure ends the loop
render_cells(cs, todo, context) ==
    IF Len(todo) = 0 THEN Outcome(cs, PyNone, "")
    ELSE LET rc == Head(todo)
             text == render(cs[rc].value.s, context)
             set == set_value(cs, rc, PyStr(text.v))
         IN IF ~(cs[rc].data_type = DataType("s") /\ cs[rc].value.t = "str"
                 /\ IsPlaceholder(cs[rc].value.s))
            THEN render_cells(cs, Tail(todo), context)
            ELSE IF ~text.ok THEN Outcome(cs, PyNone, text.v[1])
            ELSE IF set.exc # "" THEN set
            ELSE render_cells(set.cells, Tail(todo), context)

RECURSIVE InOrder(_)
\* the keys of the cells of a sheet read from a file, row by row
InOrder(keys) ==
    IF keys = {} THEN <<>>
    ELSE LET rc == CHOOSE x \in keys :
                     \A y \in keys : x[1] < y[1] \/ (x[1] = y[1] /\ x[2] <= y[2])
         IN <<rc>> \o InOrder(keys \ {rc})

\* ExcelHelper.use_template(template_file, output_file, context): the files after
\* the call and the exception raised.  The workbook of the template file is loaded
\* (FileNotFoundError when there is no such file), the placeholders of its active
\* sheet are rendered, and the workbook is saved to the output file; nothing is
\* saved when a cell cannot be rendered.  The helper's workbook is not touched.
use_template(fs, template_file, output_file, context) ==
    LET wb == fs[template_file]
        ws == wb.sheets[wb.active]
        out == render_cells(ws.cells, InOrder(DOMAIN ws.cells), context)
        done == [wb EXCEPT !.sheets[wb.active].cells = out.cells]
    IN IF template_file \notin DOMAIN fs THEN [files |-> fs, exc |-> "FileNotFoundError"]
       ELSE IF out.exc # "" THEN [files |-> fs, exc |-> out.exc]
       ELSE [files |-> (output_file :> saved(done)) @@ fs, exc |-> ""]

\* ExcelHelper.run_macro(macro_name) in an environment given by windows (is the
\* platform Windows?) and run (what the spreadsheet application did): <<>> when its
\* automation failed at any step (no automation library, no application, no file to
\* open, no such macro), else the workbook it saved to the helper's file after the
\* macro ran.  Off Windows the call is an OSError; a failure is an Exception; there
\* is nothing to open, hence a failure, when the helper's file does not exist.
run_macro(fs, windows, run) ==
    IF ~windows THEN [files |-> fs, exc |-> "OSError"]
    ELSE IF run = <<>> \/ Filename \notin DOMAIN fs THEN [files |-> fs, exc |-> "Exception"]
    ELSE [files |-> (Filename :> run[1]) @@ fs, exc |-> ""]

\* the calls and the sheet titles of the workbook scenario
MaxBookCalls == 4
\* the calls made on a helper before it has a workbook
MaxFreshCalls == 2
NewTitles == {"TestSheet"}
Titles == {FirstSheet, "TestSheet", "testsheet", "PivotTable"}
\* Hi {{ name }}
Greeting == PyStr(<<"H","i"," ","{","{"," ","n","a","m","e"," ","}","}">>)
BookValues == {PyStr(Hello), PyInt(7), Greeting}
\* the sheet names given to to_dataframe and from_dataframe ("" for none), and the
\* frames written: one row under one column label, and a frame without rows
FrameSheets == {"", "TestSheet"}
Frames == {[columns |-> <<PyStr(Hello)>>, rows |-> <<<<PyStr(<<"X">>)>>>>],
           [columns |-> <<PyStr(Hello)>>, rows |-> <<>>]}
\* the source data given to create_pivot_table: a header over one row, and no data
PivotData == {<<<<PyStr(Hello), PyStr(<<"X">>)>>, <<PyInt(7), PyNone>>>>, <<>>}
\* the template and output files given to use_template, and the contexts: one that
\* defines name and one that defines nothing
TemplateFiles == {<<Filename, Filename>>, <<Filename, OtherFile>>, <<OtherFile, Filename>>}
Contexts == {(<<"n","a","m","e">> :> PyStr(<<"X">>)), <<>>}
\* the disk the helper is constructed on: no file of the helper's name, and a
\* template made elsewhere, whose one sheet holds a placeholder in A1
TemplateSheet == "Template"
TemplateBook ==
    saved(Workbook((TemplateSheet :> [cells |-> write_cell(NewSheet, 1, 1, Greeting).cells,
                                      widths |-> NoWidths]),
                   NoTables, TemplateSheet))
DiskAtStart == (OtherFile :> TemplateBook)
\* what a macro may leave in the workbook it is run on, as the file saved after it
\* is read: the workbook as it was, or with one more sheet, which is the active one
MacroSheet == "Macro"
MacroRuns(wb) ==
    {wb, Workbook((MacroSheet :> [cells |-> NewSheet, widths |-> NoWidths]) @@ wb.sheets,
                  wb.tables, MacroSheet)}

Call(op, args, value, pre, out) ==
    [op |-> op, args |-> args, value |-> value, pre |-> pre, ret |-> out.ret, exc |-> out.exc]

\* a call on self.active_sheet, which a helper without workbook has not: None has
\* none of a sheet's attributes
on_active_sheet(active_sheet, cs, out) ==
    IF active_sheet = NoSheet THEN Outcome(cs, PyNone, "AttributeError") ELSE out

\* a call on the active sheet: the sheet changes as the operation says, and the call
\* is appended to the history
Do(op, args, value, out) ==
    /\ cells' = out.cells
    /\ hist' = Append(hist, Call(op, args, value, cells, out))

Last == hist[Len(hist)]

(* The read and write helpers, called in any order *)

WriteCell ==
    /\ pc = "sheet" /\ Len(hist) < MaxCalls
    /\ \E r \in SheetRows, c \in SheetCols, v \in Values :
          Do("write_cell", <<r, c>>, v, write_cell(cells, r, c, v))
    /\ UNCHANGED <<pc, n, letters, decoded, widths, active, others, tables, files, workbook_active>>

WriteRow ==
    /\ pc = "sheet" /\ Len(hist) < MaxCalls
    /\ \E r \in SheetRows, data \in RowData :
          Do("write_row", <<r>>, data, write_row(cells, r, data))
    /\ UNCHANGED <<pc, n, letters, decoded, widths, active, others, tables, files, workbook_active>>

WriteColumn ==
    /\ pc = "sheet" /\ Len(hist) < MaxCalls
    /\ \E c \in SheetCols, data \in RowData :
          Do("write_column", <<c>>, data, write_column(cells, c, data))
    /\ UNCHANGED <<pc, n, letters, decoded, widths, active, others, tables, files, workbook_active>>

WriteRange ==
    /\ pc = "sheet" /\ Len(hist) < MaxCalls
    /\ \E r \in SheetRows, c \in SheetCols, data \in RangeData :
          Do("write_range", <<r, c>>, data, write_range(cells, r, c, data))
    /\ UNCHANGED <<pc, n, letters, decoded, widths, active, others, tables, files, workbook_active>>

ReadCell ==
    /\ pc = "sheet" /\ Len(hist) < MaxCalls
    /\ \E r \in SheetRows, c \in SheetCols :
          Do("read_cell", <<r, c>>, PyNone, read_cell(cells, r, c))
    /\ UNCHANGED <<pc, n, letters, decoded, widths, active, others, tables, files, workbook_active>>

ReadRow ==
    /\ pc = "sheet" /\ Len(hist) < MaxCalls
    /\ \E r \in SheetRows : Do("read_row", <<r>>, PyNone, read_row(cells, r))
    /\ UNCHANGED <<pc, n, letters, decoded, widths, active, others, tables, files, workbook_active>>

ReadColumn ==
    /\ pc = "sheet" /\ Len(hist) < MaxCalls
    /\ \E c \in SheetCols : Do("read_column", <<c>>, PyNone, read_column(cells, c))
    /\ UNCHANGED <<pc, n, letters, decoded, widths, active, others, tables, files, workbook_active>>

ReadRange ==
    /\ pc = "sheet" /\ Len(hist) < MaxCalls
    /\ \E r \in SheetRows, c \in SheetCols, data \in RangeData :
          LET h == Len(data)
              w == Len(data[1])
          IN Do("read_range", <<r, c, r + h - 1, c + w - 1>>, PyNone,
                read_range(cells, r, c, r + h - 1, c + w - 1))
    /\ UNCHANGED <<pc, n, letters, decoded, widths, active, others, tables, files, workbook_active>>

InitSheet ==
    /\ cells = NewSheet /\ hist = <<>> /\ pc = "sheet"
    /\ n = 0 /\ letters = <<>> /\ decoded = 0
    /\ widths = NoWidths /\ active = FirstSheet /\ others = NoSheets
    /\ tables = NoTables /\ files = NoFiles /\ workbook_active = FirstSheet

NextSheet ==
    \/ WriteCell \/ WriteRow \/ WriteColumn \/ WriteRange
    \/ ReadCell \/ ReadRow \/ ReadColumn \/ ReadRange

SpecSheet == InitSheet /\ [][NextSheet]_vars

(* A caller that puts a value or a formula in one cell, may put a value in a *)
(* second one, copies the first cell to any cell, reads the formula there,   *)
(* copies it back and reads the formula at the source again.                 *)

\* the cell the first call wrote
Source == hist[1].args

SetFormula ==
    /\ pc = "source"
    /\ \E r \in Rows, c \in Cols, f \in Formulas :
          Do("set_formula", <<r, c>>, PyStr(f), set_formula(cells, r, c, f))
    /\ pc' = "target"
    /\ UNCHANGED <<n, letters, decoded, widths, active, others, tables, files, workbook_active>>

WritePlain ==
    /\ pc = "source"
    /\ \E r \in Rows, c \in Cols, v \in PlainValues :
          Do("write_cell", <<r, c>>, v, write_cell(cells, r, c, v))
    /\ pc' = "target"
    /\ UNCHANGED <<n, letters, decoded, widths, active, others, tables, files, workbook_active>>

SumRange ==
    /\ pc = "source"
    /\ \E r \in Rows, c \in Cols, a \in RangeArgs :
          Do("sum_range", <<r, c>>, a, sum_range(cells, a, r, c))
    /\ pc' = "target"
    /\ UNCHANGED <<n, letters, decoded, widths, active, others, tables, files, workbook_active>>

AverageRange ==
    /\ pc = "source"
    /\ \E r \in Rows, c \in Cols, a \in RangeArgs :
          Do("average_range", <<r, c>>, a, average_range(cells, a, r, c))
    /\ pc' = "target"
    /\ UNCHANGED <<n, letters, decoded, widths, active, others, tables, files, workbook_active>>

CountRange ==
    /\ pc = "source"
    /\ \E r \in Rows, c \in Cols, a \in RangeArgs :
          Do("count_range", <<r, c>>, a, count_range(cells, a, r, c))
    /\ pc' = "target"
    /\ UNCHANGED <<n, letters, decoded, widths, active, others, tables, files, workbook_active>>

IfFormula ==
    /\ pc = "source"
    /\ \E r \in Rows, c \in Cols, cr \in Rows, cc \in Cols :
          Do("if_formula", <<r, c>>, <<cr, cc>>,
             if_formula(cells, cr, cc, <<"T","r","u","e">>, <<"F","a","l","s","e">>, r, c))
    /\ pc' = "target"
    /\ UNCHANGED <<n, letters, decoded, widths, active, others, tables, files, workbook_active>>

Vlookup ==
    /\ pc = "source"
    /\ \E r \in Rows, c \in Cols, a \in RangeArgs :
          Do("vlookup", <<r, c>>, a, vlookup(cells, 5, 1, a, 2, r, c))
    /\ pc' = "target"
    /\ UNCHANGED <<n, letters, decoded, widths, active, others, tables, files, workbook_active>>

WriteTarget ==
    /\ pc = "target"
    /\ \E r \in Rows, c \in Cols, v \in TargetValues :
          Do("write_cell", <<r, c>>, v, write_cell(cells, r, c, v))
    /\ pc' = "copy"
    /\ UNCHANGED <<n, letters, decoded, widths, active, others, tables, files, workbook_active>>

CopyFormula ==
    /\ pc \in {"target", "copy"}
    /\ \E r \in Rows, c \in Cols :
          Do("copy_formula", <<Source[1], Source[2], r, c>>, PyNone,
             copy_formula(cells, Source[1], Source[2], r, c))
    /\ pc' = "get"
    /\ UNCHANGED <<n, letters, decoded, widths, active, others, tables, files, workbook_active>>

GetFormula ==
    /\ pc = "get"
    /\ Do("get_formula", <<Last.args[3], Last.args[4]>>, PyNone,
          get_formula(cells, Last.args[3], Last.args[4]))
    /\ pc' = "back"
    /\ UNCHANGED <<n, letters, decoded, widths, active, others, tables, files, workbook_active>>

CopyBack ==
    /\ pc = "back"
    /\ Do("copy_formula", <<Last.args[1], Last.args[2], Source[1], Source[2]>>, PyNone,
          copy_formula(cells, Last.args[1], Last.args[2], Source[1], Source[2]))
    /\ pc' = "getback"
    /\ UNCHANGED <<n, letters, decoded, widths, active, others, tables, files, workbook_active>>

GetBack ==
    /\ pc = "getback"
    /\ Do("get_formula", <<Source[1], Source[2]>>, PyNone,
          get_formula(cells, Source[1], Source[2]))
    /\ pc' = "done"
    /\ UNCHANGED <<n, letters, decoded, widths, active, others, tables, files, workbook_active>>

InitCopy ==
    /\ cells = NewSheet /\ hist = <<>> /\ pc = "source"
    /\ n = 0 /\ letters = <<>> /\ decoded = 0
    /\ widths = NoWidths /\ active = FirstSheet /\ others = NoSheets
    /\ tables = NoTables /\ files = NoFiles /\ workbook_active = FirstSheet

NextCopy ==
    \/ SetFormula \/ WritePlain \/ SumRange \/ AverageRange \/ CountRange
    \/ IfFormula \/ Vlookup
    \/ WriteTarget \/ CopyFormula \/ GetFormula \/ CopyBack \/ GetBack

SpecCopy == InitCopy /\ [][NextCopy]_vars

(* Column letters: a range formula over column n, then a read of column n *)

EncodeColumn ==
    /\ pc = "column"
    /\ Do("sum_range", <<1, 1>>, <<1, n, 1, n>>, sum_range(cells, <<1, n, 1, n>>, 1, 1))
    /\ letters' = get_column_letter(n).v
    /\ pc' = "encoded"
    /\ UNCHANGED <<n, decoded, widths, active, others, tables, files, workbook_active>>

DecodeColumn ==
    /\ pc = "encoded"
    /\ Do("read_column", <<n>>, PyNone, read_column(cells, n))
    /\ decoded' = column_index_from_string(letters).v
    /\ pc' = "decoded"
    /\ UNCHANGED <<n, letters, widths, active, others, tables, files, workbook_active>>

InitColumn ==
    /\ cells = NewSheet /\ hist = <<>> /\ pc = "column"
    /\ n \in 1..MaxColumn /\ letters = <<>> /\ decoded = 0
    /\ widths = NoWidths /\ active = FirstSheet /\ others = NoSheets
    /\ tables = NoTables /\ files = NoFiles /\ workbook_active = FirstSheet

NextColumn == EncodeColumn \/ DecodeColumn

SpecColumn == InitColumn /\ [][NextColumn]_vars

(* Column widths: cells written, then auto_fit_columns *)

AutoFitWrite ==
    /\ pc = "fit" /\ Len(hist) < MaxFitWrites
    /\ \E r \in FitRows, c \in FitCols, v \in FitValues :
          Do("write_cell", <<r, c>>, v, write_cell(cells, r, c, v))
    /\ UNCHANGED <<pc, n, letters, decoded, widths, active, others, tables, files, workbook_active>>

\* the write of test_auto_fit_columns
AutoFitWriteRange ==
    /\ pc = "fit" /\ Len(hist) < MaxFitWrites
    /\ Do("write_range", <<1, 1>>, FitTestData, write_range(cells, 1, 1, FitTestData))
    /\ UNCHANGED <<pc, n, letters, decoded, widths, active, others, tables, files, workbook_active>>

\* apply_style on a cell of the sheet: the key "value" writes
AutoFitStyle ==
    /\ pc = "fit" /\ Len(hist) < MaxFitWrites
    /\ \E r \in FitRows, c \in FitCols, style \in FitStyles :
          Do("apply_style", <<r, c>>, style, apply_style(cells, r, c, style))
    /\ UNCHANGED <<pc, n, letters, decoded, widths, active, others, tables, files, workbook_active>>

AutoFitColumns ==
    /\ pc = "fit"
    /\ Do("auto_fit_columns", <<>>, PyNone, auto_fit_columns(cells, widths))
    /\ widths' = auto_fit_columns(cells, widths).widths
    /\ pc' = "fitted"
    /\ UNCHANGED <<n, letters, decoded, active, others, tables, files, workbook_active>>

InitFit ==
    /\ cells = NewSheet /\ hist = <<>> /\ pc = "fit"
    /\ n = 0 /\ letters = <<>> /\ decoded = 0
    /\ widths = NoWidths /\ active = FirstSheet /\ others = NoSheets
    /\ tables = NoTables /\ files = NoFiles /\ workbook_active = FirstSheet

NextFit == AutoFitWrite \/ AutoFitWriteRange \/ AutoFitStyle \/ AutoFitColumns

SpecFit == InitFit /\ [][NextFit]_vars

(* The helper from its construction on: a workbook created or opened, sheets  *)
(* created as test_select_sheet does, select_sheet, reads and writes on the   *)
(* active sheet, and the files the helper saves, opens and writes             *)

\* Workbook.sheetnames: none for a helper without workbook
SheetNames == IF active = NoSheet THEN {} ELSE {active} \cup DOMAIN others
\* the sheets of the workbook by title, the active one among them
Sheets == IF active = NoSheet THEN NoSheets
          ELSE (active :> [cells |-> cells, widths |-> widths]) @@ others
\* the cells of each
SheetCells == [t \in DOMAIN Sheets |-> Sheets[t].cells]
\* self.workbook
TheWorkbook == Workbook(Sheets, tables, workbook_active)

\* the next call of the scenario is made
BookCall ==
    /\ pc = "book" /\ Len(hist) < MaxBookCalls
    /\ active = NoSheet => Len(hist) < MaxFreshCalls

\* the helper's workbook and active sheet become wb and the sheet of wb titled title
Becomes(wb, title) ==
    /\ active' = title
    /\ workbook_active' = wb.active
    /\ tables' = wb.tables
    /\ widths' = IF title = NoSheet THEN NoWidths ELSE wb.sheets[title].widths
    /\ others' = [t \in DOMAIN wb.sheets \ {title} |-> wb.sheets[t]]

\* workbook.create_sheet(title) with a title the workbook has not
CreateSheet ==
    /\ BookCall
    /\ \E title \in NewTitles \ SheetNames :
          IF active = NoSheet
          THEN /\ Do("create_sheet", <<>>, title, Outcome(cells, PyNone, "AttributeError"))
               /\ UNCHANGED others
          ELSE /\ others' = (title :> [cells |-> NewSheet, widths |-> NoWidths]) @@ others
               /\ Do("create_sheet", <<>>, title, Outcome(cells, PyNone, ""))
    /\ UNCHANGED <<pc, n, letters, decoded, widths, active, tables, files, workbook_active>>

\* a call that may change the active sheet: the sheet named by the outcome is the
\* active one after it, with the cells the outcome gives it, and the sheet that was
\* active stays in the workbook
DoBook(op, args, value, out) ==
    /\ active' = out.active
    /\ widths' = IF out.active = NoSheet THEN NoWidths ELSE Sheets[out.active].widths
    /\ others' = [t \in DOMAIN Sheets \ {out.active} |-> Sheets[t]]
    /\ Do(op, args, value, out)

\* select_sheet(name): on success the sheet called name becomes the active sheet and
\* the sheet that was active stays in the workbook
SelectSheet ==
    /\ BookCall
    /\ \E name \in Titles :
          LET out == select_sheet(SheetNames, active, name)
          IN DoBook("select_sheet", <<>>, name,
                    BookOutcome(out.active,
                                IF out.active = NoSheet THEN cells ELSE SheetCells[out.active],
                                PyNone, out.exc))
    /\ UNCHANGED <<pc, n, letters, decoded, tables, files, workbook_active>>

BookWriteCell ==
    /\ BookCall
    /\ \E v \in BookValues :
          Do("write_cell", <<1, 1>>, v, on_active_sheet(active, cells, write_cell(cells, 1, 1, v)))
    /\ UNCHANGED <<pc, n, letters, decoded, widths, active, others, tables, files,
                   workbook_active>>

BookReadCell ==
    /\ BookCall
    /\ Do("read_cell", <<1, 1>>, PyNone, on_active_sheet(active, cells, read_cell(cells, 1, 1)))
    /\ UNCHANGED <<pc, n, letters, decoded, widths, active, others, tables, files,
                   workbook_active>>

ToDataFrame ==
    /\ BookCall
    /\ \E name \in FrameSheets :
          DoBook("to_dataframe", <<1, 1>>, name, to_dataframe(SheetCells, active, name, 1, 1))
    /\ UNCHANGED <<pc, n, letters, decoded, tables, files, workbook_active>>

FromDataFrame ==
    /\ BookCall
    /\ \E df \in Frames, name \in FrameSheets :
          DoBook("from_dataframe", <<df, 1, 1>>, name,
                 from_dataframe(SheetCells, active, df, name, 1, 1))
    /\ UNCHANGED <<pc, n, letters, decoded, tables, files, workbook_active>>

\* create_pivot_table(source_data, ...): the workbook gains a sheet, whatever is
\* raised after its creation; the active sheet stays
CreatePivotTable ==
    /\ BookCall
    /\ \E source_data \in PivotData :
          LET out == create_pivot_table(SheetNames, tables, source_data)
          IN /\ others' = IF out.title = NoSheet THEN others
                          ELSE (out.title :> [cells |-> out.cells, widths |-> NoWidths]) @@ others
             /\ tables' = out.tables
             /\ Do("create_pivot_table", <<>>, source_data, Outcome(cells, PyNone, out.exc))
    /\ UNCHANGED <<pc, n, letters, decoded, widths, active, files, workbook_active>>

\* save_workbook(): the file of the helper's filename holds the workbook
SaveWorkbook ==
    /\ BookCall
    /\ LET out == save_workbook(TheWorkbook, files)
       IN /\ Becomes(out.workbook, active)
          /\ files' = out.files
          /\ Do("save_workbook", <<>>, PyNone,
                Outcome(IF active = NoSheet THEN cells ELSE out.workbook.sheets[active].cells,
                        PyNone, out.exc))
    /\ UNCHANGED <<pc, n, letters, decoded>>

\* open_workbook(): the workbook of the file takes the place of the helper's
OpenWorkbook ==
    /\ BookCall
    /\ LET out == open_workbook(TheWorkbook, active, files)
       IN /\ Becomes(out.workbook, out.active_sheet)
          /\ Do("open_workbook", <<>>, PyNone,
                Outcome(IF out.active_sheet = NoSheet THEN cells
                        ELSE out.workbook.sheets[out.active_sheet].cells, PyNone, out.exc))
    /\ UNCHANGED <<pc, n, letters, decoded, files>>

\* use_template(template_file, output_file, context): a file is written, the
\* helper's own among them; the helper's workbook stays
UseTemplate ==
    /\ BookCall
    /\ \E io \in TemplateFiles, context \in Contexts :
          LET out == use_template(files, io[1], io[2], context)
          IN /\ files' = out.files
             /\ Do("use_template", io, context, Outcome(cells, PyNone, out.exc))
    /\ UNCHANGED <<pc, n, letters, decoded, widths, active, others, tables, workbook_active>>

\* run_macro(macro_name), off Windows and on it: the spreadsheet application fails,
\* or saves the helper's file after the macro ran
RunMacro ==
    /\ BookCall
    /\ \E windows \in BOOLEAN :
       \E run \in {<<>>} \cup (IF windows /\ Filename \in DOMAIN files
                               THEN {<<wb>> : wb \in MacroRuns(files[Filename])} ELSE {}) :
          LET out == run_macro(files, windows, run)
          IN /\ files' = out.files
             /\ Do("run_macro", <<windows>>, run, Outcome(cells, PyNone, out.exc))
    /\ UNCHANGED <<pc, n, letters, decoded, widths, active, others, tables, workbook_active>>

\* create_new_workbook(): a new workbook takes the place of the helper's
CreateNewWorkbook ==
    /\ BookCall
    /\ Do("create_new_workbook", <<>>, PyNone, Outcome(NewSheet, PyNone, ""))
    /\ widths' = NoWidths /\ active' = FirstSheet /\ others' = NoSheets /\ tables' = NoTables
    /\ workbook_active' = FirstSheet
    /\ UNCHANGED <<pc, n, letters, decoded, files>>

\* ExcelHelper(filename): a helper without workbook; the disk holds a template and
\* no file of the helper's name
InitBook ==
    /\ cells = NewSheet /\ hist = <<>> /\ pc = "book"
    /\ n = 0 /\ letters = <<>> /\ decoded = 0
    /\ widths = NoWidths /\ active = NoSheet /\ others = NoSheets
    /\ tables = NoTables /\ files = DiskAtStart /\ workbook_active = NoSheet

NextBook ==
    \/ CreateSheet \/ SelectSheet \/ BookWriteCell \/ BookReadCell
    \/ ToDataFrame \/ FromDataFrame \/ CreateNewWorkbook
    \/ CreatePivotTable \/ SaveWorkbook \/ OpenWorkbook
    \/ UseTemplate \/ RunMacro

SpecBook == InitBook /\ [][NextBook]_vars

----------------------------------------------------------------------------
(* What the claims speak of: the references of a formula text, read off the  *)
(* text itself by the reference grammar [$]Letter+[$]Digit+ (and the column  *)
(* and row ranges B:C, 2:3), without the tokenizer.  A reference has a       *)
(* column component and a row component, each locked by "$" or relative.     *)

\* inside a string constant, quotes included
QuotedAt(s, i) == s[i] = "\"" \/ Cardinality({j \in 1..(i - 1) : s[j] = "\""}) % 2 = 1
RefChar(s, i) == /\ i \in 1..Len(s)
                 /\ ~QuotedAt(s, i)
                 /\ s[i] \in (LetterSet \cup DigitSet \cup {"$"})
IsWordStart(s, i) == RefChar(s, i) /\ ~RefChar(s, i - 1)
RECURSIVE WordEnd(_, _)
\* the last position of the word that holds position i
WordEnd(s, i) == IF RefChar(s, i + 1) THEN WordEnd(s, i + 1) ELSE i
RECURSIVE WordStart(_, _)
\* the first position of the word that holds position i
WordStart(s, i) == IF RefChar(s, i - 1) THEN WordStart(s, i - 1) ELSE i
Word(s, i) == SubSeq(s, i, WordEnd(s, i))

Unlock(w) == IF Len(w) >= 1 /\ w[1] = "$" THEN Tail(w) ELSE w
ColumnText(w) == Len(Unlock(w)) \in 1..3 /\ AllIn(Unlock(w), LetterSet)
RowText(w) == /\ Len(Unlock(w)) \in 1..7 /\ AllIn(Unlock(w), DigitSet) /\ Unlock(w)[1] # "0"
\* where the row text of a cell reference starts, 0 if w is no cell reference
RowStart(w) ==
    LET ks == {k \in 2..Len(w) : ColumnText(SubSeq(w, 1, k - 1)) /\ RowText(SubSeq(w, k, Len(w)))}
    IN IF ks = {} THEN 0 ELSE CHOOSE k \in ks : TRUE

IsCall(s, i) == WordEnd(s, i) + 1 <= Len(s) /\ s[WordEnd(s, i) + 1] = "("
\* the word is one end of a range of whole columns (rows): B:C, 2:$3
RangeEnd(s, i, IsText(_)) ==
    /\ IsText(Word(s, i))
    /\ ~IsCall(s, i)
    /\ \/ LET e == WordEnd(s, i)
          IN /\ e + 2 <= Len(s) /\ s[e + 1] = ":" /\ IsWordStart(s, e + 2)
             /\ IsText(Word(s, e + 2)) /\ ~IsCall(s, e + 2)
       \/ /\ i >= 3 /\ s[i - 1] = ":" /\ RefChar(s, i - 2)
          /\ IsText(SubSeq(s, WordStart(s, i - 2), i - 2))

RECURSIVE Base26(_)
Base26(l) == IF Len(l) = 0 THEN 0
             ELSE 26 * Base26(SubSeq(l, 1, Len(l) - 1)) + LetterIdx(ToUpper(l[Len(l)]))

ColComp(w) == [axis |-> "col", locked |-> w[1] = "$", val |-> Base26(Unlock(w)), text |-> w]
RowComp(w) == [axis |-> "row", locked |-> w[1] = "$", val |-> StrToInt(Unlock(w)), text |-> w]

\* the components of the word at i: none for a function name, a number or a name
WordComps(s, i) ==
    LET w == Word(s, i)
        k == RowStart(w)
    IN IF IsCall(s, i) THEN <<>>
       ELSE IF k # 0 THEN <<ColComp(SubSeq(w, 1, k - 1)), RowComp(SubSeq(w, k, Len(w)))>>
       ELSE IF RangeEnd(s, i, ColumnText) THEN <<ColComp(w)>>
       ELSE IF RangeEnd(s, i, RowText) THEN <<RowComp(w)>>
       ELSE <<>>

RECURSIVE CompsFrom(_, _)
CompsFrom(s, i) ==
    IF i > Len(s) THEN <<>>
    ELSE IF IsWordStart(s, i) THEN WordComps(s, i) \o CompsFrom(s, WordEnd(s, i) + 1)
    ELSE CompsFrom(s, i + 1)
\* the reference components of a formula text, left to right
Comps(s) == CompsFrom(s, 1)

RECURSIVE SkeletonFrom(_, _)
SkeletonFrom(s, i) ==
    IF i > Len(s) THEN <<>>
    ELSE IF IsWordStart(s, i)
         THEN LET cs == WordComps(s, i)
              IN (IF cs = <<>> THEN Word(s, i) ELSE [k \in 1..Len(cs) |-> cs[k].axis])
                 \o SkeletonFrom(s, WordEnd(s, i) + 1)
    ELSE <<s[i]>> \o SkeletonFrom(s, i + 1)
\* the text around the references: every component replaced by a mark
Skeleton(s) == SkeletonFrom(s, 1)

\* a space outside string constants that follows a space
IsRunSpace(s, i) == i > 1 /\ s[i] = " " /\ s[i - 1] = " " /\ ~QuotedAt(s, i)
HasSpaceRun(s) == \E i \in 1..Len(s) : IsRunSpace(s, i)

\* a component as the claims expect it after a copy by (dr, dc)
Shifted(c, dr, dc) ==
    IF c.locked THEN c
    ELSE [c EXCEPT !.val = @ + (IF c.axis = "col" THEN dc ELSE dr)]
SameComp(a, b) == /\ a.axis = b.axis /\ a.locked = b.locked /\ a.val = b.val
                  /\ (a.locked => a.text = b.text)
\* out has the references of f shifted by (dr, dc), as many and in the same order
ShiftedRefs(f, out, dr, dc) ==
    LET a == Comps(f)
        b == Comps(out)
    IN /\ Len(b) = Len(a)
       /\ \A k \in 1..Len(a) : SameComp(b[k], Shifted(a[k], dr, dc))

AllAbsolute(f) == LET a == Comps(f) IN \A k \in 1..Len(a) : a[k].locked
AllRelative(f) == LET a == Comps(f) IN Len(a) >= 1 /\ \A k \in 1..Len(a) : ~a[k].locked
\* some relative component would leave the sheet at the top or at the left
ShiftsBelowOne(f, dr, dc) ==
    LET a == Comps(f)
    IN \E k \in 1..Len(a) : ~a[k].locked /\ Shifted(a[k], dr, dc).val < 1
UpperCaseRefs(f) ==
    LET a == Comps(f)
    IN \A k \in 1..Len(a) : AllIn(a[k].text, UpperSet \cup DigitSet \cup {"$"})

----------------------------------------------------------------------------
(* Properties of copy_formula, checked under SpecCopy *)

From(h) == <<h.args[1], h.args[2]>>
To(h) == <<h.args[3], h.args[4]>>
HoldsFormula(cs, rc) == rc \in DOMAIN cs /\ cs[rc].data_type = DataType("f")
\* the last call was copy_formula; cells is the sheet it left
Copied == Len(hist) >= 1 /\ Last.op = "copy_formula"
\* ... and its source cell held a formula
CopiedFormula == Copied /\ HoldsFormula(Last.pre, From(Last))
SourceText == Last.pre[From(Last)].value.s
TargetText == cells[To(Last)].value.s
RowDelta == Last.args[3] - Last.args[1]
ColDelta == Last.args[4] - Last.args[2]

\* =SUM(B2:B6)
F_SumB2B6 == <<"=","S","U","M","(","B","2",":","B","6",")">>
\* =SUM(B1:B5)
F_SumB1B5 == <<"=","S","U","M","(","B","1",":","B","5",")">>

\* C1, as claimed, for a formula without runs of spaces: copy_formula on a formula
\* cell raises nothing and stores in the target the source formula with every
\* relative row increased by the row distance and every relative column by the
\* column distance, as many references in the same order, all other text as it was.
C1_ShiftedCopy ==
    (CopiedFormula /\ ~HasSpaceRun(SourceText)) =>
        /\ Last.exc = ""
        /\ HoldsFormula(cells, To(Last))
        /\ ShiftedRefs(SourceText, TargetText, RowDelta, ColDelta)
        /\ Skeleton(TargetText) = Skeleton(SourceText)
        /\ (SourceText = F_Sum /\ From(Last) = <<1, 1>> /\ To(Last) = <<2, 2>>
              => TargetText = F_SumB2B6)

\* C2, as claimed: a copy never changes a locked component: when copy_formula on a
\* formula cell completes, every locked component stands in the target as written
\* in the source and every unlocked one is shifted; a formula whose references are
\* all absolute is copied, and the copy is the source text unchanged.
C2_AbsoluteUnchanged ==
    CopiedFormula =>
        /\ Last.exc = "" =>
              /\ HoldsFormula(cells, To(Last))
              /\ ShiftedRefs(SourceText, TargetText, RowDelta, ColDelta)
        /\ AllAbsolute(SourceText) =>
              /\ Last.exc = ""
              /\ TargetText = SourceText

\* C3, as claimed, for a formula in upper case without runs of spaces: a formula
\* with only relative references copied from O to T and copied back from T to O
\* is at O the formula it was; neither copy raises.
C3_RoundTrip ==
    (pc = "getback" /\ HoldsFormula(hist[Len(hist) - 2].pre, From(hist[Len(hist) - 2]))) =>
        LET first == hist[Len(hist) - 2]
            f == first.pre[From(first)].value.s
        IN (AllRelative(f) /\ UpperCaseRefs(f) /\ ~HasSpaceRun(f)) =>
              /\ first.exc = ""
              /\ Last.exc = ""
              /\ cells[From(first)].value = PyStr(f)

\* C4: copy_formula on a source cell that holds no formula (a string, a number,
\* nothing) raises nothing and changes the value of no cell: every cell of the
\* sheet is as before, and a cell the call created holds None.
C4_NoFormulaNoCopy ==
    (Copied /\ ~HoldsFormula(Last.pre, From(Last))) =>
        /\ Last.exc = ""
        /\ \A rc \in DOMAIN Last.pre : rc \in DOMAIN cells /\ cells[rc] = Last.pre[rc]
        /\ \A rc \in DOMAIN cells \ DOMAIN Last.pre : cells[rc].value = PyNone

\* "Hello" copied onto a cell that held another value
C4_Witness ==
    /\ Copied /\ From(Last) # To(Last)
    /\ From(Last) \in DOMAIN Last.pre /\ Last.pre[From(Last)].value = PyStr(Hello)
    /\ To(Last) \in DOMAIN Last.pre /\ Last.pre[To(Last)].value \in TargetValues
    /\ cells[To(Last)] = Last.pre[To(Last)]

\* C5, as claimed: a copy rewrites only references: function names, operators,
\* numbers, string constants (their content included) and spaces stand in the
\* target as in the source, in the same order.
C5_Verbatim ==
    (CopiedFormula /\ Last.exc = "") =>
        /\ HoldsFormula(cells, To(Last))
        /\ Skeleton(TargetText) = Skeleton(SourceText)

\* C6, as claimed: copy_formula on a formula with a relative reference that the copy
\* would shift to a row or a column below 1 completes without an exception.
C6_NoCrashBelowOne ==
    (CopiedFormula /\ ShiftsBelowOne(SourceText, RowDelta, ColDelta)) => Last.exc = ""

\* the calls of test_copy_formula: set_formula(1, 1, "=SUM(A1:A5)"),
\* copy_formula(1, 1, 2, 2), get_formula(2, 2)
TestCopyFormula ==
    /\ Len(hist) = 3
    /\ hist[1].op = "set_formula" /\ hist[1].args = <<1, 1>> /\ hist[1].value = PyStr(F_Sum)
    /\ hist[2].op = "copy_formula" /\ hist[2].args = <<1, 1, 2, 2>>
    /\ hist[3].op = "get_formula" /\ hist[3].args = <<2, 2>>

\* C8, as claimed: after set_formula(1, 1, "=SUM(A1:A5)") and
\* copy_formula(1, 1, 2, 2) on a new workbook get_formula(2, 2) returns
\* "=SUM(B1:B5)": the columns shifted by one and the rows as they were.
C8_RowsKept == TestCopyFormula => Last.ret = PyStr(F_SumB1B5)

----------------------------------------------------------------------------
(* Column letters, checked under SpecColumn *)

\* =SUM(<letters>1:<letters>1), the formula sum_range writes for column n
ColumnFormula == <<"=","S","U","M","(">> \o letters \o <<"1",":">> \o letters \o <<"1",")">>

\* C7: the letters of column n, for every n in 1..16384, are the bijective base-26
\* numeral of n (A = 1, Z = 26, AA = 27): one to three letters A..Z whose value is
\* n; sum_range renders column n with them, and decoding them gives n back, so
\* that read_column(n) reads column n.  Distinct n then have distinct letters,
\* since the letters of n decode to n only.
C7_ColumnRoundTrip ==
    /\ pc \in {"encoded", "decoded"} =>
          /\ Len(letters) \in 1..3 /\ AllIn(letters, UpperSet)
          /\ Base26(letters) = n
          /\ (n = 1 => letters = <<"A">>)
          /\ (n = 26 => letters = <<"Z">>)
          /\ (n = 27 => letters = <<"A", "A">>)
          /\ hist[1].exc = "" /\ cells[<<1, 1>>].value = PyStr(ColumnFormula)
    /\ pc = "decoded" =>
          /\ decoded = n
          /\ Last.exc = "" /\ <<1, n>> \in DOMAIN cells
          /\ \A rc \in DOMAIN cells : rc[2] \in {1, n}

\* the last column of a sheet, XFD
C7_Witness ==
    /\ pc = "decoded" /\ n = 16384
    /\ letters = <<"X", "F", "D">> /\ decoded = 16384
    /\ <<1, 16384>> \in DOMAIN cells

----------------------------------------------------------------------------
(* Reads after writes, checked under SpecSheet *)

ValueAt(cs, rc) == IF rc \in DOMAIN cs THEN cs[rc].value ELSE PyNone

\* what call h wrote to cell rc as its arguments say: <<v>>, or <<>> if it wrote
\* nothing there
WrittenBy(h, rc) ==
    CASE h.op = "write_cell" -> IF h.args = rc THEN <<h.value>> ELSE <<>>
      [] h.op = "write_row" ->
            IF rc[1] = h.args[1] /\ rc[2] \in 1..Len(h.value) THEN <<h.value[rc[2]]>> ELSE <<>>
      [] h.op = "write_column" ->
            IF rc[2] = h.args[1] /\ rc[1] \in 1..Len(h.value) THEN <<h.value[rc[1]]>> ELSE <<>>
      [] h.op = "write_range" ->
            LET i == rc[1] - h.args[1] + 1
                j == rc[2] - h.args[2] + 1
            IN IF i \in 1..Len(h.value) /\ j \in 1..Len(h.value[i])
               THEN <<h.value[i][j]>> ELSE <<>>
      [] OTHER -> <<>>

RECURSIVE MostRecent(_, _)
\* the value most recently written to rc by the first k calls, None if none was
MostRecent(k, rc) ==
    IF k = 0 THEN PyNone
    ELSE IF WrittenBy(hist[k], rc) # <<>> THEN WrittenBy(hist[k], rc)[1]
    ELSE MostRecent(k - 1, rc)

\* the last two calls: a write_range and a read_range of the rectangle it wrote
RangeWrittenAndRead ==
    /\ Len(hist) >= 2
    /\ hist[Len(hist) - 1].op = "write_range" /\ Last.op = "read_range"
    /\ LET w == hist[Len(hist) - 1]
       IN Last.args = <<w.args[1], w.args[2], w.args[1] + Len(w.value) - 1,
                        w.args[2] + Len(w.value[1]) - 1>>

\* C9, as claimed: read_cell(r, c) returns the value most recently written to (r, c)
\* by write_cell, write_row, write_column or write_range, and read_range right
\* after write_range, over the rectangle written, returns the data written.
C9_ReadsLastWritten ==
    /\ (Len(hist) >= 1 /\ Last.op = "read_cell") =>
          Last.ret = MostRecent(Len(hist) - 1, Last.args)
    /\ RangeWrittenAndRead => Last.ret = hist[Len(hist) - 1].value

\* the last two calls: write_row(r, data) and read_row(r), or write_column(c, data)
\* and read_column(c), after at least one earlier call
WrittenAndRead(write, read) ==
    /\ Len(hist) >= 3
    /\ hist[Len(hist) - 1].op = write /\ Last.op = read
    /\ Last.args = hist[Len(hist) - 1].args

\* the largest of k and the numbers in S
Widest(S, k) == CHOOSE x \in S \cup {k} : \A y \in S \cup {k} : y <= x

\* what a read finds at rc after data entry v was written there over sheet pre
Kept(pre, rc, v) == IF v # PyNone THEN v ELSE ValueAt(pre, rc)

----------------------------------------------------------------------------
(* Column widths, checked under SpecFit *)

\* the length of the text of a value: of a string its length, of a number the
\* length of its decimal text, of an empty cell 0
TextLength(value) == IF value.t = "NoneType" THEN 0 ELSE Len(value.s)
\* the length of the longest text in column c of the sheet
LongestIn(cs, c) ==
    Widest({TextLength(cs[rc].value) : rc \in {x \in DOMAIN cs : x[2] = c}}, 0)
LastColumn == Widest({rc[2] : rc \in DOMAIN cells}, 0)
WidthOf(c) == widths[get_column_letter(c).v]

\* C11, as claimed: after auto_fit_columns every column of the active sheet has the
\* width (length of the text of its longest value) + 2, whatever the values are
\* (strings, numbers, nothing), so that of two columns the one whose longest value
\* is shorter has the strictly smaller width.
C11_WidthOfLongestValue ==
    pc = "fitted" =>
        /\ \A c \in 1..LastColumn :
              /\ get_column_letter(c).v \in DOMAIN widths
              /\ WidthOf(c) = LongestIn(cells, c) + 2
        /\ \A c, d \in 1..LastColumn :
              LongestIn(cells, c) < LongestIn(cells, d) => WidthOf(c) < WidthOf(d)

----------------------------------------------------------------------------
(* The active sheet of a workbook, checked under SpecBook *)

\* the cells of every sheet of the workbook, by title; no sheet for a helper
\* without workbook
BookOf(act, cs, oth) ==
    IF act = NoSheet THEN <<>> ELSE (act :> cs) @@ [t \in DOMAIN oth |-> oth[t].cells]

RECURSIVE TitlesIn(_, _)
RECURSIVE FileTitles(_, _, _)
\* the titles of the workbook's sheets after the first k calls of h, none while the
\* helper has no workbook: a sheet comes with create_sheet and with
\* create_pivot_table, whatever the latter raises, and open_workbook brings the
\* sheets of the helper's file
TitlesIn(h, k) ==
    IF k = 0 THEN {}
    ELSE IF h[k].op = "create_new_workbook" THEN {FirstSheet}
    ELSE IF h[k].op = "create_sheet" /\ h[k].exc = "" THEN TitlesIn(h, k - 1) \cup {h[k].value}
    ELSE IF h[k].op = "create_pivot_table" /\ TitlesIn(h, k - 1) # {}
    THEN TitlesIn(h, k - 1) \cup {PivotTitle(TitlesIn(h, k - 1))}
    ELSE IF h[k].op = "open_workbook" /\ h[k].exc = "" THEN FileTitles(h, k - 1, Filename)
    ELSE TitlesIn(h, k - 1)

\* the titles of the sheets in the file at path after the first k calls of h, none
\* when there is no such file: the disk is as the helper found it, then
\* save_workbook writes the helper's workbook to the helper's file, use_template
\* the workbook of the template to the output file, and a macro that ran leaves in
\* the helper's file what the application saved
FileTitles(h, k, path) ==
    IF k = 0 THEN IF path \in DOMAIN DiskAtStart THEN DOMAIN DiskAtStart[path].sheets ELSE {}
    ELSE IF h[k].op = "save_workbook" /\ h[k].exc = "" /\ path = Filename
    THEN TitlesIn(h, k - 1)
    ELSE IF h[k].op = "use_template" /\ h[k].exc = "" /\ h[k].args[2] = path
    THEN FileTitles(h, k - 1, h[k].args[1])
    ELSE IF h[k].op = "run_macro" /\ h[k].exc = "" /\ path = Filename
    THEN DOMAIN h[k].value[1].sheets
    ELSE FileTitles(h, k - 1, path)

RECURSIVE MarkedIn(_, _)
RECURSIVE FileActive(_, _, _)
\* the sheet the workbook itself holds active after the first k calls of h: the
\* first sheet of a new workbook, and the sheet its file names for an opened one
MarkedIn(h, k) ==
    IF k = 0 THEN NoSheet
    ELSE IF h[k].op = "create_new_workbook" THEN FirstSheet
    ELSE IF h[k].op = "open_workbook" /\ h[k].exc = "" THEN FileActive(h, k - 1, Filename)
    ELSE MarkedIn(h, k - 1)

\* the sheet the file at path names active after the first k calls of h
FileActive(h, k, path) ==
    IF k = 0 THEN IF path \in DOMAIN DiskAtStart THEN DiskAtStart[path].active ELSE NoSheet
    ELSE IF h[k].op = "save_workbook" /\ h[k].exc = "" /\ path = Filename
    THEN MarkedIn(h, k - 1)
    ELSE IF h[k].op = "use_template" /\ h[k].exc = "" /\ h[k].args[2] = path
    THEN FileActive(h, k - 1, h[k].args[1])
    ELSE IF h[k].op = "run_macro" /\ h[k].exc = "" /\ path = Filename
    THEN h[k].value[1].active
    ELSE FileActive(h, k - 1, path)

\* the sheet name a call gives to select_sheet, "" when it gives none: select_sheet
\* itself, and to_dataframe and from_dataframe called with a sheet name, the latter
\* once it has found its frame not empty
Selects(call) ==
    IF call.op \in {"select_sheet", "to_dataframe"} THEN call.value
    ELSE IF call.op = "from_dataframe" /\ Len(call.args[1].rows) > 0
                                       /\ Len(call.args[1].columns) > 0 THEN call.value
    ELSE ""

RECURSIVE SelectedIn(_, _)
\* the sheet last selected with success by the first k calls of h: the workbook's
\* own active sheet when none was since the workbook was created or opened, and no
\* sheet while the helper has no workbook
SelectedIn(h, k) ==
    IF k = 0 THEN NoSheet
    ELSE IF h[k].op = "create_new_workbook" THEN FirstSheet
    ELSE IF h[k].op = "open_workbook" /\ h[k].exc = "" THEN FileActive(h, k - 1, Filename)
    ELSE IF Selects(h[k]) \in TitlesIn(h, k - 1) THEN Selects(h[k])
    ELSE SelectedIn(h, k - 1)

\* what holds of one call, the last of hist', whether or not the helper has a
\* workbook: the workbook has the sheets the calls gave it, the active sheet is one
\* of them, the one last selected, a selection made through to_dataframe or
\* from_dataframe is the one select_sheet makes, and a write or a read goes to the
\* selected sheet and to no other
SheetsStep ==
    LET call == hist'[Len(hist')]
        before == BookOf(active, cells, others)
        after == BookOf(active', cells', others')
        selected == SelectedIn(hist, Len(hist))
    IN /\ DOMAIN after = TitlesIn(hist', Len(hist'))
       /\ active' = SelectedIn(hist', Len(hist'))
       /\ DOMAIN after # {} => active' \in DOMAIN after
       /\ (call.op \in {"to_dataframe", "from_dataframe"} /\ Selects(call) # ""
             /\ DOMAIN before # {}) =>
             /\ Selects(call) \in DOMAIN before =>
                   /\ call.exc = "" /\ active' = Selects(call)
                   /\ \A t \in DOMAIN before \ {active'} : after[t] = before[t]
             /\ Selects(call) \notin DOMAIN before =>
                   /\ call.exc = "ValueError" /\ active' = active /\ after = before
       /\ (call.op = "write_cell" /\ DOMAIN before # {}) =>
             /\ call.exc = ""
             /\ ValueAt(after[selected], call.args) = call.value
             /\ \A t \in DOMAIN before \ {selected} : after[t] = before[t]
       /\ (call.op = "read_cell" /\ DOMAIN before # {}) =>
             /\ call.exc = ""
             /\ call.ret = ValueAt(before[selected], call.args)
             /\ \A t \in DOMAIN before \ {selected} : after[t] = before[t]

\* select_sheet as claimed, of the last call of hist': the sheet called name is the
\* active one when the workbook has it, otherwise a ValueError and nothing changes
SelectsOrValueError ==
    LET call == hist'[Len(hist')]
        before == BookOf(active, cells, others)
        after == BookOf(active', cells', others')
    IN call.op = "select_sheet" =>
          /\ call.value \in DOMAIN before => call.exc = "" /\ active' = call.value
          /\ call.value \notin DOMAIN before => call.exc = "ValueError" /\ active' = active
          /\ after = before

\* what C12 says of one call, the last of hist', on a helper with or without
\* workbook
SelectSheetStep ==
    LET call == hist'[Len(hist')]
    IN /\ SheetsStep
       /\ active # NoSheet => SelectsOrValueError
       /\ (active = NoSheet /\ call.op = "select_sheet") =>
             /\ call.exc = "AttributeError"
             /\ UNCHANGED <<cells, widths, active, others, tables, files, workbook_active>>

\* C12: on a helper that has a workbook (create_new_workbook was called, or
\* open_workbook with success), select_sheet(name) makes the sheet called name the
\* active sheet when the workbook has a sheet of that title; otherwise it raises
\* ValueError and leaves the active sheet and every cell of the workbook as they
\* were.  So after every call the active sheet is a sheet of the workbook, the one
\* last selected with success (the workbook's own active sheet when none was since
\* the workbook was created or opened), and a write or a read goes to that sheet and
\* to no other.  On a helper without workbook select_sheet raises AttributeError and
\* changes nothing.
C12_SelectSheet == [][SelectSheetStep]_vars

\* on a new workbook TestSheet is created and selected; then a sheet the workbook
\* has not is asked for, and TestSheet stays the active sheet
C12_Witness ==
    /\ Len(hist) = 4
    /\ hist[1].op = "create_new_workbook"
    /\ hist[2].op = "create_sheet" /\ hist[2].value = "TestSheet"
    /\ hist[3].op = "select_sheet" /\ hist[3].value = "TestSheet" /\ hist[3].exc = ""
    /\ hist[4].op = "select_sheet" /\ hist[4].value = "testsheet" /\ hist[4].exc = "ValueError"
    /\ active = "TestSheet" /\ DOMAIN others = {FirstSheet}
    /\ others[FirstSheet].cells = NewSheet

\* C12 as claimed: whatever calls were made before it, select_sheet(name) selects
\* the sheet called name or raises ValueError
C12_ValueErrorOtherwise == [][SheetsStep /\ SelectsOrValueError]_vars

====
